---- MODULE Spec2Model ----
\* Validation round engine of the titan scheduler
\* (node/scheduler/validate/validate.go) as a state machine.
\*
\* Every goroutine of the engine is a process of the model: the executions
\* of startValidate (cron job or StartValidateOnceTask), the timeout
\* goroutines spawned by checkValidateTimeOut, the dispatch goroutines
\* spawned by execute, the goroutine that restarts the crontab and the
\* handler of a validate result.  A process takes one step per blocking
\* call (cache store, persistent store, RPC); the statements between two
\* blocking calls belong to the step of the call before them.
EXTENDS Integers, FiniteSets, Sequences, Bags, TLC

\* ---------------------------------------------------------------- bounds
MaxRound == 3          \* rounds (round ids) a behaviour may start
MaxRunners == 2        \* concurrent executions of startValidate
MaxFaults == 1         \* store / RPC failures in one behaviour
IntervalTicks == 2     \* clock ticks that make up v.interval
MaxSleepers == 2       \* restart goroutines asleep at the same time
MaxFid == 2            \* the max fid GetNodeCacheFid reports for a device

\* ------------------------------------------------------- the node universe
Candidates == {"c1"}
Edges == {"e1"}
Devices == Candidates \cup Edges

\* ------------------------------------------------------ program constants
errMsgTimeOut == "time out"
errMsgCancel == "verification canceled due to download"
validationNotStarted == "validationNotStarted"
validationStarting == "validationStarting"
ValidateStatusCreate == "created"
ValidateStatusSuccess == "success"
ValidateStatusFail == "fail"
ValidateStatusTimeOut == "timeout"
ValidateStatusCancel == "cancelled"
ValidateStatusOther == "other"
TerminalStatus == {ValidateStatusSuccess, ValidateStatusFail, ValidateStatusTimeOut,
                   ValidateStatusCancel, ValidateStatusOther}

errNone == "nil"
noReturn == "-"
errRoundMismatch == "round id mismatch"
errInProgress == "validation in progress, cannot start again"
errStore == "store error"
errNoNodes == "edge node and candidate node are empty"

VARIABLES
    roundId,        \* cache store: the round id counter
    verifying,      \* cache store: the set of verifying devices
    rows,           \* persistent store: the validate_result rows
    preRoundId,     \* Validate.preRoundId
    curRoundId,     \* Validate.curRoundId
    seed,           \* Validate.seed
    validateState,  \* Validate.validateState
    enable,         \* Validate.enable
    maxFidMap,      \* Validate.maxFidMap (the devices that have an entry)
    cronRunning,    \* crontab: started and not stopped
    sleepers,       \* number of restart goroutines asleep
    timers,         \* clock: remaining ticks -> how many restart goroutines
    sinceManual,    \* clock: ticks since the latest accepted StartValidateOnceTask
    runners,        \* bag of the executions of startValidate in progress
    timeoutTasks,   \* goroutines spawned by checkValidateTimeOut
    dispatchTasks,  \* goroutines spawned by execute
    handler,        \* the execution of handleValidateResult
    preflightDone,  \* history: the latest round whose preflight returned nil
    scheduled,      \* history: <<round, device>> pairs added to verifying
    mapping,        \* the latest call of validateMapping: arguments and result
    verdict,        \* a result to classify, what the stores hold for it, the outcome
    replicas,       \* persistent store: the replica rows
    carfiles,       \* persistent store: carfile hash -> carfile record
    quitCalls,      \* bag of the executions of NodeQuit in progress
    quitLog,        \* what the executions of nodeExitedCallback have logged
    waiting,        \* the carfile hashes handed to the replica manager
    nodes,          \* persistent store: device id -> row of the node table
    nodeCall,       \* history: the latest statement run on the node table
    register,       \* persistent store: device id -> registration
    edgeSessions,   \* node manager: device id -> session of the connected edge
    candidateSessions, \* node manager: device id -> session of the connected candidate
    syncList,       \* data sync: the devices waiting for a sync
    connects,       \* the executions of EdgeNodeConnect / CandidateNodeConnect in progress
    nextSession,    \* the sessions created so far
    connected,      \* history: the devices whose connect returned nil
    issued,         \* history: the tokens signed so far, each with the device it was signed for
    authCall,       \* the latest call of AuthNodeVerify: context, token, permissions returned
    mainProc,       \* the scheduler process: its inputs, its position in main, its exit
    calls,          \* history: the ValidateBlocks calls of the dispatch goroutines, where kept
    durable,        \* persistent store: the keys that have a row, per table; the latest lookup
    nodeWrites,     \* persistent store: the node table written by calls of SetNodeInfo in flight
    resultQueue,    \* Validate.resultQueue and Validate.resultChannel, their pushers and consumer
    faults,         \* failures injected so far
    lastErr         \* what the call that returned in the latest step returned

vars == <<roundId, verifying, rows, preRoundId, curRoundId, seed, validateState,
          enable, maxFidMap, cronRunning, sleepers, timers,
          sinceManual, runners, timeoutTasks, dispatchTasks, handler,
          scheduled, preflightDone, mapping, verdict, replicas, carfiles,
          quitCalls, quitLog, waiting, nodes, nodeCall, register, edgeSessions,
          candidateSessions, syncList, connects, nextSession, connected,
          issued, authCall, mainProc, calls, durable, nodeWrites,
          resultQueue, faults, lastErr>>

lateVars == <<durable, nodeWrites, resultQueue>>
storeVars == <<roundId, verifying, rows>>
engineVars == <<preRoundId, curRoundId, seed, validateState, enable, maxFidMap>>
cronVars == <<cronRunning, sleepers>>
clockVars == <<timers, sinceManual>>
engine == <<roundId, verifying, rows, preRoundId, curRoundId, seed, validateState,
            enable, maxFidMap, cronRunning, sleepers, runners, timeoutTasks,
            dispatchTasks, handler, scheduled, preflightDone, calls, lateVars, faults>>
noMapping == [validatorList |-> {}, edgeNodes |-> {}, candidateNodes |-> {},
              draw |-> <<>>, result |-> <<>>, err |-> "-"]
taskVars == <<timeoutTasks, dispatchTasks>>
noVerdict == [done |-> FALSE]
quitVars == <<replicas, carfiles, quitCalls, quitLog, waiting>>
nodeVars == <<nodes, nodeCall>>
registryVars == <<edgeSessions, candidateSessions, syncList>>
connVars == <<register, registryVars, connects, nextSession, connected>>
authVars == <<issued, authCall>>
otherVars == <<mapping, verdict, quitVars, nodeVars, connVars, authVars, mainProc, lateVars>>
callVars == <<otherVars, calls>>
roundVars == <<roundId, verifying, rows, engineVars, cronVars, clockVars, runners,
               taskVars, handler, scheduled, preflightDone, mapping, verdict, calls, lateVars>>
preLate == <<roundId, verifying, rows, engineVars, cronVars, clockVars, runners,
            taskVars, handler, scheduled, preflightDone, mapping, verdict,
            quitVars, nodeVars, connVars, authVars, mainProc, calls>>

Min(a, b) == IF a < b THEN a ELSE b

idleHandler == [pc |-> "idle"]

\* A blocking call either succeeds or, while the budget lasts, fails.
CallOutcomes == IF faults < MaxFaults THEN {TRUE, FALSE} ELSE {TRUE}
Charge(ok) == faults' = IF ok THEN faults ELSE faults + 1

\* NewValidate: state after construction (enable is the caller's argument).
\* No lookup of the persistent store was made and its tables are empty.
noLookup == [fn |-> "", key |-> "", present |-> FALSE, fail |-> "none",
             found |-> FALSE, err |-> "-"]
noWrites == [table |-> {}, inflight |-> {}, first |-> <<>>, clock |-> 0,
             last |-> [op |-> "", deviceID |-> ""]]
noQueue == [list |-> <<>>, channel |-> 0, pushers |-> {}, consumer |-> [pc |-> "recv"],
            pushed |-> <<>>, handled |-> <<>>, next |-> 1, crashed |-> FALSE]
NoLate ==
    /\ durable = [rows |-> {}, call |-> noLookup]
    /\ nodeWrites = noWrites
    /\ resultQueue = noQueue

InitEngine ==
    /\ roundId = 0
    /\ verifying = {}
    /\ rows = {}
    /\ preRoundId = 0
    /\ curRoundId = 0
    /\ seed = 0
    /\ validateState = validationNotStarted
    /\ enable \in BOOLEAN
    /\ maxFidMap = {}
    /\ cronRunning = TRUE
    /\ sleepers = 0
    /\ timers = [t \in 0..IntervalTicks |-> 0]
    /\ sinceManual = IntervalTicks
    /\ runners = EmptyBag
    /\ timeoutTasks = {}
    /\ dispatchTasks = {}
    /\ handler = idleHandler
    /\ preflightDone = 0
    /\ scheduled = {}
    /\ mapping = noMapping
    /\ calls = {}
    /\ NoLate
    /\ faults = 0
    /\ lastErr = noReturn

\* No carfile is stored and no node quits.
NoQuit ==
    /\ replicas = {}
    /\ carfiles = <<>>
    /\ quitCalls = EmptyBag
    /\ quitLog = {}
    /\ waiting = {}

noNodeCall == [op |-> "", sName |-> "", changed |-> {}]

\* The node table is empty.
NoNodes == nodes = <<>> /\ nodeCall = noNodeCall

\* No device is registered and none connects.
NoConnect ==
    /\ register = <<>>
    /\ edgeSessions = <<>>
    /\ candidateSessions = <<>>
    /\ syncList = {}
    /\ connects = {}
    /\ nextSession = 0
    /\ connected = {}

noAuthCall == [deviceID |-> "", token |-> <<>>, perms |-> {}]

\* No token has been signed; the process is past its initialisation.
NoAuth == issued = {} /\ authCall = noAuthCall /\ mainProc = [pc |-> "Serve"]

Init == InitEngine /\ verdict = noVerdict /\ NoQuit /\ NoNodes /\ NoConnect /\ NoAuth

\* ------------------------------------------------------------ the stores
\* cache store, GetPreviousAndCurrentRoundId: increments the round id
\* counter and returns the value before and after the increment.
GetPreviousAndCurrentRoundId == <<roundId, roundId + 1>>

\* persistent store, SetValidateResultInfo: a row of status created or
\* other is inserted; a row of another status updates status and msg of the
\* rows of its round and device.
SetValidateResultInfo(rs, info) ==
    IF info.status \in {ValidateStatusCreate, ValidateStatusOther}
      THEN rs \cup {info}
      ELSE {IF r.round_id = info.round_id /\ r.device_id = info.device_id
              THEN [r EXCEPT !.status = info.status, !.msg = info.msg]
              ELSE r : r \in rs}

\* persistent store: the row of a dispatch is written.
InsertValidateResultInfo(rs, info) == SetValidateResultInfo(rs, info)

\* persistent store: the row of an outcome is written; the engine sets
\* round, device, status and msg of it.
UpdateValidateResultInfo(rs, roundID, deviceID, msg, status) ==
    SetValidateResultInfo(rs, [round_id |-> roundID, device_id |-> deviceID,
                               validator_id |-> "", status |-> status,
                               msg |-> msg])

\* UpdateFailValidateResult: the update the engine issues for a
\* cancelled, timed out, failed or unqueryable result.
UpdateFailValidateResult(rs, roundID, deviceID, msg, status) ==
    UpdateValidateResultInfo(rs, roundID, deviceID, msg, status)

\* UpdateSuccessValidateResult: the update for a result that passed.
UpdateSuccessValidateResult(rs, roundID, deviceID) ==
    UpdateValidateResultInfo(rs, roundID, deviceID, "ok", ValidateStatusSuccess)

\* ------------------------------------------------------ crontab and clock
Runners == BagToSet(runners)
Active == BagCardinality(runners)
AtStart == IF [pc |-> "startValidate", pre |-> 0, manual |-> TRUE] \in Runners
             THEN CopiesIn([pc |-> "startValidate", pre |-> 0, manual |-> TRUE], runners)
             ELSE 0
AtStartCron == IF [pc |-> "startValidate", pre |-> 0, manual |-> FALSE] \in Runners
                 THEN CopiesIn([pc |-> "startValidate", pre |-> 0, manual |-> FALSE], runners)
                 ELSE 0

\* Round ids used or about to be used by an execution that has begun.
Budget(n) == roundId + AtStart + AtStartCron <= n

\* A startValidate may begin while round ids remain for every execution
\* that has not read the counter yet.
CanStart == Active < MaxRunners /\ Budget(MaxRound - 1)

Begin(manual) ==
    runners' = runners (+) SetToBag({[pc |-> "startValidate", pre |-> 0,
                                      manual |-> manual]})
Move(r, next) == runners' = (runners (-) SetToBag({r})) (+) SetToBag({next})

Return(r, err) ==
    /\ runners' = runners (-) SetToBag({r})
    /\ lastErr' = err

\* initValidateTask: the cron job, started by the running crontab.  Two
\* activations are an interval apart: the job of the activation before
\* has returned.
CronJob ==
    /\ cronRunning
    /\ \A r \in Runners : r.manual
    /\ CanStart
    /\ Begin(FALSE)
    /\ lastErr' = noReturn
    /\ UNCHANGED <<storeVars, engineVars, cronVars, taskVars, handler,
                   scheduled, preflightDone, faults>>

\* A guard of StartValidateOnceTask that never sees a round in progress.
InProgressNever == validateState \notin {validationNotStarted, validationStarting}

\* the guard of StartValidateOnceTask
InProgress == validateState = validationStarting

\* A start that leaves the flag as it is.
enableOnStartKept(e) == e

\* StartValidateOnceTask, line 510: v.enable = true.
enableOnStart(e) == TRUE

\* StartValidateOnceTask up to its call of startValidate: the state check,
\* the restart goroutine, enable = true and crontab.Stop().
StartValidateOnceTask ==
    /\ InProgress \/ (CanStart /\ sleepers < MaxSleepers)
    /\ IF InProgress
         THEN /\ lastErr' = errInProgress
              /\ UNCHANGED <<storeVars, engineVars, cronVars, runners, taskVars,
                             handler, scheduled, preflightDone, faults>>
         ELSE /\ sleepers' = sleepers + 1
              /\ enable' = enableOnStart(enable)
              /\ cronRunning' = FALSE
              /\ Begin(TRUE)
              /\ lastErr' = noReturn
              /\ UNCHANGED <<storeVars, preRoundId, curRoundId, seed, validateState,
                             maxFidMap, taskVars, handler, scheduled, preflightDone, faults>>

\* The restart goroutine of StartValidateOnceTask: crontab.Start() after
\* its sleep.
RestartCron ==
    /\ sleepers > 0
    /\ sleepers' = sleepers - 1
    /\ cronRunning' = TRUE
    /\ lastErr' = noReturn
    /\ UNCHANGED <<storeVars, engineVars, runners, taskVars, handler,
                   scheduled, preflightDone, faults>>

\* EnableValidate (ValidateSwitch)
EnableValidate(e) ==
    /\ enable # e
    /\ enable' = e
    /\ lastErr' = noReturn
    /\ UNCHANGED <<storeVars, preRoundId, curRoundId, seed, validateState,
                   maxFidMap, cronVars, runners, taskVars, handler,
                   scheduled, preflightDone, faults>>

\* IsEnable, lines 496-498: what ValidateRunningState returns.
IsEnable == enable

\* ------------------------------------------------------- startValidate
\* startValidate, lines 115-121: the round ids and the seed.
startValidate(r) ==
    /\ r \in Runners /\ r.pc = "startValidate"
    /\ \E ok \in CallOutcomes :
        /\ Charge(ok)
        /\ IF ok
             THEN /\ roundId' = GetPreviousAndCurrentRoundId[2]
                  /\ preRoundId' = GetPreviousAndCurrentRoundId[1]
                  /\ curRoundId' = GetPreviousAndCurrentRoundId[2]
                  /\ seed' = GetPreviousAndCurrentRoundId[2]
                  /\ Move(r, [pc |-> "checkValidateTimeOut",
                               pre |-> GetPreviousAndCurrentRoundId[1],
                               manual |-> r.manual])
                  /\ lastErr' = noReturn
             ELSE /\ Return(r, errStore)
                  /\ UNCHANGED <<roundId, preRoundId, curRoundId, seed>>
    /\ UNCHANGED <<verifying, rows, validateState, enable, maxFidMap, cronVars,
                   taskVars, handler, scheduled, preflightDone>>

\* An enable check that lets every round through.
DisabledNever == enable /\ ~enable

\* startValidate, line 131: the enable check.
Disabled == ~enable

\* checkValidateTimeOut and the enable check of startValidate (lines
\* 125-134) with the first statement of execute (line 169): one timeout
\* goroutine per device of the verifying list.  A goroutine keeps the
\* device; it reads v.preRoundId when it runs.  Its field pre records the
\* previous round id of the preflight that spawned it.
checkValidateTimeOut(r) ==
    /\ r \in Runners /\ r.pc = "checkValidateTimeOut"
    /\ \E ok \in CallOutcomes :
        /\ Charge(ok)
        /\ IF ~ok
             THEN /\ Return(r, errStore)
                  /\ UNCHANGED <<timeoutTasks, validateState, preflightDone>>
             ELSE /\ timeoutTasks' = timeoutTasks \cup
                        {[deviceID |-> d, pre |-> r.pre] : d \in verifying}
                  /\ preflightDone' = IF r.pre + 1 > preflightDone
                                        THEN r.pre + 1 ELSE preflightDone
                  /\ IF Disabled
                       THEN /\ validateState' = validationNotStarted
                            /\ Return(r, errNone)
                       ELSE /\ validateState' = validationStarting
                            /\ Move(r, [r EXCEPT !.pc = "execute"])
                            /\ lastErr' = noReturn
    /\ UNCHANGED <<storeVars, preRoundId, curRoundId, seed, enable, maxFidMap,
                   cronVars, dispatchTasks, handler, scheduled>>

\* The timeout goroutine of checkValidateTimeOut (lines 156-161).
TimeOutTask(t) ==
    /\ t \in timeoutTasks
    /\ timeoutTasks' = timeoutTasks \ {t}
    /\ \E ok \in CallOutcomes :
        /\ Charge(ok)
        /\ rows' = IF ok
                     THEN UpdateFailValidateResult(rows, preRoundId, t.deviceID,
                                                   errMsgTimeOut, ValidateStatusTimeOut)
                     ELSE rows
    /\ lastErr' = noReturn
    /\ UNCHANGED <<roundId, verifying, engineVars, cronVars, runners,
                   dispatchTasks, handler, scheduled, preflightDone>>

\* execute, lines 171-174: RemoveVerifyingList.
execute(r) ==
    /\ r \in Runners /\ r.pc = "execute"
    /\ \E ok \in CallOutcomes :
        /\ Charge(ok)
        /\ IF ok
             THEN /\ verifying' = {}
                  /\ Move(r, [r EXCEPT !.pc = "validateMapping"])
                  /\ lastErr' = noReturn
                  /\ UNCHANGED <<validateState>>
             ELSE /\ validateState' = validationNotStarted
                  /\ Return(r, errStore)
                  /\ UNCHANGED verifying
    /\ UNCHANGED <<roundId, rows, preRoundId, curRoundId, seed, enable, maxFidMap,
                   cronVars, taskVars, handler, scheduled, preflightDone>>

\* A self check that lets a candidate validate itself.
SelfAssignedNever(candidateID, validatorID) == validatorID \notin {candidateID, validatorID}

\* validateMapping, line 259: a candidate that drew itself.
SelfAssigned(candidateID, validatorID) == validatorID = candidateID

\* A plan that gives every validator every other node.
validateMappingBroadcast(validatorList, edgeNodes, candidateNodes, draw) ==
    [v \in validatorList |-> (edgeNodes \cup candidateNodes) \ {v}]

\* validateMapping: draw[d] is the validator that generatorForRandomNumber
\* picked for node d.  The result maps each validator that got a node to
\* the nodes it got.
validateMapping(validatorList, edgeNodes, candidateNodes, draw) ==
    LET assigned == edgeNodes \cup
                    {c \in candidateNodes : ~SelfAssigned(c, draw[c])}
    IN  [v \in {draw[d] : d \in assigned} |-> {d \in assigned : draw[d] = v}]

\* validateMapping, lines 272-276: the error returned with the plan.
validateMappingErr(result) == IF DOMAIN result = {} THEN errNoNodes ELSE errNone

\* execute, lines 176-214: the validator list, the plan, one dispatch
\* goroutine per validator of the plan.  The validator list and the nodes
\* of the registry are what the election and the node manager hold at this
\* moment: candidates and edges are the nodes that can be connected.
executeNodes(r, candidates, edges) ==
    /\ r \in Runners /\ r.pc = "validateMapping"
    /\ \E ok \in CallOutcomes :
        /\ Charge(ok)
        /\ IF ~ok
             THEN /\ validateState' = validationNotStarted
                  /\ Return(r, errStore)
                  /\ UNCHANGED dispatchTasks
             ELSE \E validatorList \in SUBSET candidates :
                    IF validatorList = {}
                      THEN /\ Return(r, errNone)
                           /\ UNCHANGED <<validateState, dispatchTasks>>
                      ELSE \E online \in SUBSET (candidates \cup edges) :
                           \E draw \in [online -> validatorList] :
                             LET plan == validateMapping(validatorList, online \cap edges,
                                                         online \cap candidates, draw)
                             IN  IF validateMappingErr(plan) # errNone
                                   THEN /\ validateState' = validationNotStarted
                                        /\ Return(r, errNoNodes)
                                        /\ UNCHANGED dispatchTasks
                                   ELSE /\ dispatchTasks' = dispatchTasks \cup
                                             {[validatorID |-> v, targets |-> plan[v],
                                               list |-> plan[v], req |-> {},
                                               round |-> curRoundId] :
                                              v \in DOMAIN plan}
                                        /\ Return(r, errNone)
                                        /\ UNCHANGED validateState
    /\ UNCHANGED <<storeVars, preRoundId, curRoundId, seed, enable, maxFidMap,
                   cronVars, timeoutTasks, handler, scheduled, preflightDone>>

\* execute over the nodes of the scheduler.
executeMapping(r) == executeNodes(r, Candidates, Edges)

\* --------------------------------------------------- the dispatch goroutine
\* A goroutine that loses the batch it assembled.
afterStepBatchLost(t, task) == (dispatchTasks \ {t}) \cup {[task EXCEPT !.req = {}]}

\* What the dispatch goroutine is after an iteration of its loop: list is
\* what is left of its targets, req the batch assembled so far.
afterStep(t, task) == (dispatchTasks \ {t}) \cup {task}

\* assemblyValidateReqAndStore, one iteration of the loop (lines 295-345).
\* content is whether CountCidOfDevice and GetNodeCacheFid gave a device
\* with cached blocks; fail names the store call that failed, if any.
assemblyValidateReqAndStore(t) ==
    /\ t \in dispatchTasks /\ t.list # {}
    /\ LET device == CHOOSE d \in t.list : TRUE
           entry == [deviceID |-> device, Seed |-> seed, RoundID |-> curRoundId]
           info == [round_id |-> curRoundId, device_id |-> device,
                    validator_id |-> t.validatorID, status |-> ValidateStatusCreate,
                    msg |-> ""]
       IN \E content \in BOOLEAN :
          \E fail \in (IF faults < MaxFaults /\ content
                         THEN {"none", "SetNodeToVerifyingList", "InsertValidateResultInfo"}
                         ELSE {"none"}) :
            /\ Charge(fail = "none")
            /\ IF ~content
                 THEN /\ dispatchTasks' = afterStep(t, [t EXCEPT !.list = @ \ {device}])
                      /\ UNCHANGED <<maxFidMap, verifying, rows, scheduled>>
                 ELSE /\ maxFidMap' = maxFidMap \cup {device}
                      /\ dispatchTasks' = afterStep(t,
                            [t EXCEPT !.list = @ \ {device}, !.req = @ \cup {entry}])
                      /\ IF fail = "SetNodeToVerifyingList"
                           THEN UNCHANGED <<verifying, rows, scheduled>>
                           ELSE /\ verifying' = verifying \cup {device}
                                /\ scheduled' = scheduled \cup {<<curRoundId, device>>}
                                /\ rows' = IF fail = "InsertValidateResultInfo"
                                             THEN rows
                                             ELSE InsertValidateResultInfo(rows, info)
    /\ lastErr' = noReturn
    /\ UNCHANGED <<roundId, preRoundId, curRoundId, seed, validateState, enable,
                   cronVars, runners, timeoutTasks, handler, preflightDone>>

\* What becomes of the batch of a dispatch goroutine: the validator is no
\* longer connected (line 200), the RPC returns an error (line 206), or the
\* validator has the batch.
validatorGone == "validator is null"
rpcFailed == "ValidateBlocks error"
rpcSent == "ValidateBlocks nil"
BlocksOutcomes == {validatorGone, rpcFailed, rpcSent}

\* execute, lines 199-210, once the batch is assembled: GetCandidateNode
\* and the ValidateBlocks call.  Either failure is logged and the goroutine
\* ends; no outcome changes a row, the verifying set or the engine.
ValidateBlocks(t, outcome) ==
    /\ t \in dispatchTasks /\ t.list = {}
    /\ outcome \in BlocksOutcomes
    /\ dispatchTasks' = dispatchTasks \ {t}
    /\ lastErr' = noReturn
    /\ UNCHANGED <<storeVars, engineVars, cronVars, runners, timeoutTasks, handler,
                   scheduled, preflightDone, faults>>

\* The record of a ValidateBlocks call in the history: the goroutine, its
\* batch, what became of it, and the latest preflight done at that time.
Called(t, outcome) ==
    calls' = calls \cup {[round |-> t.round, validatorID |-> t.validatorID,
                          targets |-> t.targets, req |-> t.req,
                          outcome |-> outcome, preflight |-> preflightDone]}

\* ------------------------------------------------- handleValidateResult
CidStrings == {"A0", "A1", "B0"}

\* helper.CIDString2HashString: the hash a CID string carries ("" for a
\* string that does not parse).  A0 and A1 are two encodings of one hash.
CIDString2HashString(cidStr) ==
    CASE cidStr \in {"A0", "A1"} -> "hashA"
      [] cidStr = "B0" -> "hashB"
      [] OTHER -> ""

\* A comparison of the cid strings instead of their hashes.
compareCidText(cidStr1, cidStr2) == cidStr1 = cidStr2

compareCid(cidStr1, cidStr2) ==
    /\ CIDString2HashString(cidStr1) # ""
    /\ CIDString2HashString(cidStr2) # ""
    /\ CIDString2HashString(cidStr1) = CIDString2HashString(cidStr2)

\* getRandNum on the stream of rand.New(rand.NewSource(sd)): the draw
\* number index of that stream, in [0, max).
getRandNum(max, sd, index) == IF max > 0 THEN (sd + index) % max ELSE max

\* The fid maps GetBlocksFID may return for a device.
CacheInfos == UNION {[S -> CidStrings] : S \in SUBSET (1..MaxFid)}

\* The fid maps the rounds are run against: no block, every block equal to
\* the reported cid under another encoding, every block another cid.
RoundCacheInfos ==
    {<<>>, [f \in 1..MaxFid |-> "A1"], [f \in 1..MaxFid |-> "B0"]}

\* handleValidateResult, line 469: the message of a mismatch.
failMsg(resultCid, cid, fid, index) ==
    "validate fail; resultCid:" \o resultCid \o ",cid_db:" \o cid
        \o ",fid:" \o ToString(fid) \o ",index:" \o ToString(index)

\* handleValidateResult, lines 459-475: the scoring loop from index on.
RECURSIVE scoreFrom(_, _, _, _)
scoreFrom(res, cacheInfos, sd, index) ==
    IF index >= res.RandomCount
      THEN [status |-> ValidateStatusSuccess, msg |-> "ok", panic |-> FALSE]
    ELSE IF index + 1 > Len(res.Cids)
      THEN [status |-> "", msg |-> "", panic |-> TRUE]
    ELSE LET fid == getRandNum(MaxFid, sd, index) + 1
             cid == IF fid \in DOMAIN cacheInfos THEN cacheInfos[fid] ELSE ""
         IN  IF cid = ""
               THEN scoreFrom(res, cacheInfos, sd, index + 1)
             ELSE IF ~compareCid(cid, res.Cids[index + 1])
               THEN [status |-> ValidateStatusFail,
                     msg |-> failMsg(res.Cids[index + 1], cid, fid, index),
                     panic |-> FALSE]
             ELSE scoreFrom(res, cacheInfos, sd, index + 1)

\* handleValidateResult, line 446
errMsgNull == "validate result is null or random count is 0"

\* A check that looks at the cids only.
isNullCidsOnly(res) == Len(res.Cids) <= 0 \/ res.RandomCount < 0

\* handleValidateResult, line 445: nothing to score.
isNull(res) == Len(res.Cids) <= 0 \/ res.RandomCount <= 0

\* handleValidateResult, lines 434-475: the status and message written for
\* a result.  queryErr: GetBlocksFID returned an error.
classify(res, cacheInfos, queryErr, sd) ==
    IF res.IsCancel
      THEN [status |-> ValidateStatusCancel, msg |-> errMsgCancel, panic |-> FALSE]
    ELSE IF res.IsTimeout
      THEN [status |-> ValidateStatusTimeOut, msg |-> errMsgTimeOut, panic |-> FALSE]
    ELSE IF isNull(res)
      THEN [status |-> ValidateStatusFail, msg |-> errMsgNull, panic |-> FALSE]
    ELSE IF queryErr
      THEN [status |-> ValidateStatusOther, msg |-> "failed to query", panic |-> FALSE]
    ELSE IF DOMAIN cacheInfos = {}
      THEN [status |-> "", msg |-> "", panic |-> TRUE]
    ELSE IF res.DeviceID \notin maxFidMap
      THEN [status |-> "", msg |-> "", panic |-> TRUE]
    ELSE scoreFrom(res, cacheInfos, sd, 0)

\* The payloads of the results the nodes submit: cancelled, timed out, and
\* one cid for one draw.
\* Results are submitted for the devices under validation, the edges.
ResultShapes ==
    {[IsCancel |-> TRUE, IsTimeout |-> FALSE, Cids |-> <<>>, RandomCount |-> 0],
     [IsCancel |-> FALSE, IsTimeout |-> TRUE, Cids |-> <<>>, RandomCount |-> 0],
     [IsCancel |-> FALSE, IsTimeout |-> FALSE, Cids |-> <<"A0">>, RandomCount |-> 1]}

ValidateResults ==
    {[RoundID |-> rid, DeviceID |-> d, IsCancel |-> sh.IsCancel,
      IsTimeout |-> sh.IsTimeout, Cids |-> sh.Cids, RandomCount |-> sh.RandomCount] :
        rid \in 0..MaxRound, d \in Edges, sh \in ResultShapes}

\* A round id check that lets every result through.
RoundMatchesAny(res) == res.RoundID \in 0..MaxRound

\* handleValidateResult, line 410
RoundMatches(res) == res.RoundID = curRoundId

\* handleValidateResult, lines 410-412: the round id check.
handleValidateResult(res) ==
    /\ handler.pc = "idle"
    /\ IF RoundMatches(res)
         THEN /\ handler' = [pc |-> "update", res |-> res]
              /\ lastErr' = noReturn
         ELSE /\ lastErr' = errRoundMismatch
              /\ UNCHANGED handler
    /\ UNCHANGED <<storeVars, engineVars, cronVars, runners, taskVars,
                   scheduled, preflightDone, faults>>

\* handleValidateResult, lines 434-475: classification, scoring and the
\* update of the row.
handleUpdate ==
    /\ handler.pc = "update"
    /\ LET res == handler.res
           scored == ~res.IsCancel /\ ~res.IsTimeout
                     /\ Len(res.Cids) > 0 /\ res.RandomCount > 0
       IN \E cacheInfos \in (IF scored THEN RoundCacheInfos ELSE {<<>>}) :
          \E fail \in (IF faults < MaxFaults
                         THEN {"none", "update"} \cup
                              (IF scored THEN {"GetBlocksFID"} ELSE {})
                         ELSE {"none"}) :
            LET out == classify(res, cacheInfos, fail = "GetBlocksFID", seed)
            IN  /\ Charge(fail = "none")
                /\ IF out.panic
                     THEN /\ handler' = [pc |-> "deferred", deviceID |-> res.DeviceID,
                                         round |-> res.RoundID,
                                         err |-> "panic"]
                          /\ UNCHANGED rows
                     ELSE /\ handler' = [pc |-> "deferred", deviceID |-> res.DeviceID,
                                         round |-> res.RoundID,
                                         err |-> IF fail = "update" THEN errStore
                                                 ELSE errNone]
                          /\ rows' = IF fail = "update" THEN rows
                                     ELSE IF out.status = ValidateStatusSuccess
                                       THEN UpdateSuccessValidateResult(rows, res.RoundID,
                                                                        res.DeviceID)
                                     ELSE UpdateFailValidateResult(rows, res.RoundID,
                                              res.DeviceID, out.msg, out.status)
    /\ lastErr' = noReturn
    /\ UNCHANGED <<roundId, verifying, engineVars, cronVars, runners, taskVars,
                   scheduled, preflightDone>>

\* A count check that never takes the engine back to validationNotStarted.
stateAfterCountKept(count, state) == IF count < 0 THEN validationNotStarted ELSE state

\* handleValidateResult, lines 417-424: the state after CountVerifyingNode
\* returned count.
stateAfterCount(count, state) == IF count = 0 THEN validationNotStarted ELSE state

\* handleValidateResult, lines 416-432: the deferred calls and the return.
\* First the device leaves the verifying list, then the engine goes back
\* to validationNotStarted if the list counts no device.
handleDeferred ==
    /\ handler.pc = "deferred"
    /\ \E fail \in (IF faults < MaxFaults
                      THEN {"none", "RemoveNodeWithVerifyingList", "CountVerifyingNode"}
                      ELSE {"none"}) :
        /\ Charge(fail = "none")
        /\ verifying' = IF fail = "RemoveNodeWithVerifyingList" THEN verifying
                        ELSE verifying \ {handler.deviceID}
        /\ validateState' = IF fail # "CountVerifyingNode"
                              THEN stateAfterCount(Cardinality(verifying'), validateState)
                              ELSE validateState
    /\ handler' = idleHandler
    /\ lastErr' = handler.err
    /\ UNCHANGED <<roundId, rows, preRoundId, curRoundId, seed, enable, maxFidMap,
                   cronVars, runners, taskVars, scheduled, preflightDone>>

\* ------------------------------------------------------- the specification
\* The engine with two rounds, under every interleaving of its goroutines
\* and with failing calls; the clock is no part of the engine.  A panic
\* ends the process.
MaxRoundFull == 2
InEngine(A) ==
    /\ lastErr # "panic"
    /\ A
    /\ Budget(MaxRoundFull)'
    /\ UNCHANGED <<clockVars, callVars>>

\* A dispatch goroutine has assembled its batch and is about to look up
\* its validator and call it.  The lookup and the call read and write
\* nothing another process of the engine reads or writes, so the
\* goroutine makes them before another process moves.
Sending == \E t \in dispatchTasks : t.list = {}

Next ==
    \/ ~Sending /\ InEngine(StartValidateOnceTask)
    \/ ~Sending /\ InEngine(RestartCron)
    \/ ~Sending /\ InEngine(CronJob)
    \/ ~Sending /\ InEngine(\E e \in BOOLEAN : EnableValidate(e))
    \/ ~Sending /\ InEngine(\E r \in Runners : startValidate(r))
    \/ ~Sending /\ InEngine(\E r \in Runners : checkValidateTimeOut(r))
    \/ ~Sending /\ InEngine(\E r \in Runners : execute(r))
    \/ ~Sending /\ InEngine(\E r \in Runners : executeMapping(r))
    \/ ~Sending /\ InEngine(\E t \in timeoutTasks : TimeOutTask(t))
    \/ ~Sending /\ InEngine(\E t \in dispatchTasks : assemblyValidateReqAndStore(t))
    \/ InEngine(\E t \in dispatchTasks : \E o \in BlocksOutcomes : ValidateBlocks(t, o))
    \/ ~Sending /\ InEngine(\E res \in ValidateResults : handleValidateResult(res))
    \/ ~Sending /\ InEngine(handleUpdate)
    \/ ~Sending /\ InEngine(handleDeferred)

Spec == Init /\ [][Next]_vars

\* Rounds one after the other: a startValidate begins when the one before
\* has returned and its dispatch goroutines have ended, no call fails, no
\* submission is refused or panics, and only edges submit results.
Sequential ==
    /\ faults = 0
    /\ Active <= 1
    /\ Active > 0 => dispatchTasks = {}
    /\ lastErr \notin {errRoundMismatch, errInProgress}
    /\ handler.pc = "update" => handler.res.DeviceID \in Edges
    /\ handler.pc = "deferred" => handler.err # "panic"

InRounds(A) ==
    /\ A
    /\ Sequential' /\ sleepers' <= 1
    /\ UNCHANGED <<clockVars, callVars>>

NextRounds ==
    \/ InRounds(StartValidateOnceTask)
    \/ InRounds(RestartCron)
    \/ InRounds(CronJob)
    \/ InRounds(\E e \in BOOLEAN : EnableValidate(e))
    \/ InRounds(\E r \in Runners : startValidate(r))
    \/ InRounds(\E r \in Runners : checkValidateTimeOut(r))
    \/ InRounds(\E r \in Runners : execute(r))
    \/ InRounds(\E r \in Runners : executeMapping(r))
    \/ InRounds(\E t \in timeoutTasks : TimeOutTask(t))
    \/ InRounds(\E t \in dispatchTasks : assemblyValidateReqAndStore(t))
    \/ InRounds(\E t \in dispatchTasks : \E o \in BlocksOutcomes : ValidateBlocks(t, o))
    \/ InRounds(\E res \in ValidateResults : handleValidateResult(res))
    \/ InRounds(handleUpdate)
    \/ InRounds(handleDeferred)

SpecRounds == Init /\ [][NextRounds]_vars

\* ---------------------------------------------------------------- the clock
\* A restart goroutine sleeps IntervalTicks ticks and wakes at once.
Tick ==
    /\ timers[0] = 0
    /\ timers' = [t \in 0..IntervalTicks |->
                    IF t = IntervalTicks THEN 0 ELSE timers[t + 1]]
    /\ sinceManual' = Min(sinceManual + 1, IntervalTicks)
    /\ lastErr' = noReturn
    /\ UNCHANGED <<engine, callVars>>

TimedStartValidateOnceTask ==
    /\ StartValidateOnceTask
    /\ IF sleepers' > sleepers
         THEN /\ timers' = [timers EXCEPT ![IntervalTicks] = @ + 1]
              /\ sinceManual' = 0
         ELSE UNCHANGED clockVars

TimedRestartCron ==
    /\ RestartCron
    /\ timers[0] > 0
    /\ timers' = [timers EXCEPT ![0] = @ - 1]
    /\ UNCHANGED sinceManual

\* The engine with the clock: two rounds, one after the other.
Timed == Sequential /\ Budget(MaxRoundFull)
InTimer(A) == A /\ Timed' /\ UNCHANGED callVars

NextTimer ==
    \/ Tick
    \/ InTimer(TimedStartValidateOnceTask)
    \/ InTimer(TimedRestartCron)
    \/ InTimer(UNCHANGED clockVars /\ CronJob)
    \/ InTimer(UNCHANGED clockVars /\ \E e \in BOOLEAN : EnableValidate(e))
    \/ InTimer(UNCHANGED clockVars /\ \E r \in Runners : startValidate(r))
    \/ InTimer(UNCHANGED clockVars /\ \E r \in Runners : checkValidateTimeOut(r))
    \/ InTimer(UNCHANGED clockVars /\ \E r \in Runners : execute(r))
    \/ InTimer(UNCHANGED clockVars /\ \E r \in Runners : executeMapping(r))
    \/ InTimer(UNCHANGED clockVars /\ \E t \in timeoutTasks : TimeOutTask(t))
    \/ InTimer(UNCHANGED clockVars /\ \E t \in dispatchTasks : assemblyValidateReqAndStore(t))
    \/ InTimer(UNCHANGED clockVars /\ \E t \in dispatchTasks : \E o \in BlocksOutcomes :
                  ValidateBlocks(t, o))
    \/ InTimer(UNCHANGED clockVars /\ \E res \in ValidateResults : handleValidateResult(res))
    \/ InTimer(UNCHANGED clockVars /\ handleUpdate)
    \/ InTimer(UNCHANGED clockVars /\ handleDeferred)

SpecTimer == Init /\ [][NextTimer]_vars

\* ------------------------------------------------- validateMapping alone
MapCandidates == {"c1", "c2"}
MapEdges == {"e1", "e2"}

\* One call of validateMapping on a validator list, the nodes of the
\* registry and the draws of generatorForRandomNumber.
CallValidateMapping ==
    \E validatorList \in SUBSET MapCandidates \ {{}} :
    \E edgeNodes \in SUBSET MapEdges :
    \E candidateNodes \in SUBSET MapCandidates :
    \E draw \in [edgeNodes \cup candidateNodes -> validatorList] :
        LET result == validateMapping(validatorList, edgeNodes, candidateNodes, draw)
        IN  /\ mapping' = [validatorList |-> validatorList, edgeNodes |-> edgeNodes,
                           candidateNodes |-> candidateNodes, draw |-> draw,
                           result |-> result, err |-> validateMappingErr(result)]
            /\ lastErr' = validateMappingErr(result)
            /\ UNCHANGED <<engine, clockVars, verdict, quitVars, nodeVars, connVars,
                           authVars, mainProc>>

SpecMapping == Init /\ [][CallValidateMapping]_vars

\* ------------------------------------------------------ the calls of a round
\* A round of the crontab over the nodes of the plans above; a history
\* keeps every ValidateBlocks call.  The preflight of a first round finds
\* the verifying list empty and spawns no timeout goroutine.
MaxBatchRounds == 1

InBatch(A) ==
    /\ A
    /\ Budget(MaxBatchRounds)' /\ Active' <= 1
    /\ UNCHANGED <<clockVars, callVars>>

InBatchCalled(A) ==
    /\ A
    /\ UNCHANGED <<clockVars, otherVars>>

NextBatch ==
    \/ InBatch(CronJob)
    \/ InBatch(\E r \in Runners : startValidate(r))
    \/ InBatch(\E r \in Runners : checkValidateTimeOut(r))
    \/ InBatch(\E r \in Runners : execute(r))
    \/ InBatch(\E r \in Runners : executeNodes(r, MapCandidates, MapEdges))
    \/ InBatch(\E t \in dispatchTasks : assemblyValidateReqAndStore(t))
    \/ InBatchCalled(\E t \in dispatchTasks : \E o \in BlocksOutcomes :
                        ValidateBlocks(t, o) /\ Called(t, o))

SpecBatch == Init /\ [][NextBatch]_vars

\* Rounds of the crontab over the nodes of the scheduler, one execution of
\* startValidate at a time, no result coming in; the history keeps every
\* ValidateBlocks call.
MaxCallRounds == 2

InCalls(A) ==
    /\ A
    /\ Budget(MaxCallRounds)' /\ Active' <= 1
    /\ UNCHANGED <<clockVars, callVars>>

NextCalls ==
    \/ InCalls(CronJob)
    \/ InCalls(\E r \in Runners : startValidate(r))
    \/ InCalls(\E r \in Runners : checkValidateTimeOut(r))
    \/ InCalls(\E r \in Runners : execute(r))
    \/ InCalls(\E r \in Runners : executeMapping(r))
    \/ InCalls(\E t \in timeoutTasks : TimeOutTask(t))
    \/ InCalls(\E t \in dispatchTasks : assemblyValidateReqAndStore(t))
    \/ InBatchCalled(\E t \in dispatchTasks : \E o \in BlocksOutcomes :
                        ValidateBlocks(t, o) /\ Called(t, o))

SpecCalls == Init /\ [][NextCalls]_vars

\* ------------------------------------------- lookups of the persistent store
\* The lookups that return one row, and the table each reads.
Lookups == {"GetNodeInfo", "GetDataInfo", "GetRegisterInfo", "GetBlockFidWithCid",
            "GetBlockCidWithFid", "GetCacheInfo", "GetBlockInfo"}
TableOf(fn) ==
    CASE fn = "GetNodeInfo" -> "node"
      [] fn = "GetDataInfo" -> "data_info"
      [] fn = "GetRegisterInfo" -> "register"
      [] fn \in {"GetBlockFidWithCid", "GetBlockCidWithFid"} -> "device_blocks"
      [] fn = "GetCacheInfo" -> "cache_info"
      [] fn = "GetBlockInfo" -> "block_info"
Tables == {TableOf(fn) : fn \in Lookups}
RowKeys == {"k1"}

errNodeNotFind == "Not Found"
errScan == "scan error"

\* What a lookup returns as its error when the query gave no row: the else
\* branch of rows.Next().
MissingRowErr(fn) ==
    IF fn \in {"GetCacheInfo", "GetBlockInfo"} THEN errNone ELSE errNodeNotFind

\* A lookup: the query fails, or the scan of the row fails, or the row is
\* returned, or there is none.
LookupRow(fn, present, fail) ==
    IF fail = "query" THEN [found |-> FALSE, err |-> errStore]
    ELSE IF ~present THEN [found |-> FALSE, err |-> MissingRowErr(fn)]
    ELSE IF fail = "scan" THEN [found |-> FALSE, err |-> errScan]
    ELSE [found |-> TRUE, err |-> errNone]

\* IsNilErr, lines 53-55: err.Error() of a nil error is a nil dereference.
IsNilErr(err) == [panic |-> err = errNone, value |-> err = errNodeNotFind]

\* A row is written (SetNodeInfo, SetDataInfo, BindRegisterInfo,
\* SetCacheInfo, SetBlockInfo and the writes of device_blocks).
SetRow(table, key) ==
    /\ <<table, key>> \notin durable.rows
    /\ durable' = [durable EXCEPT !.rows = @ \cup {<<table, key>>}]
    /\ lastErr' = noReturn
    /\ UNCHANGED <<preLate, nodeWrites, resultQueue, faults>>

\* A call of one of the lookups.
CallLookup(fn, key) ==
    /\ \E fail \in (IF faults < MaxFaults THEN {"none", "query", "scan"} ELSE {"none"}) :
         LET present == <<TableOf(fn), key>> \in durable.rows
             out == LookupRow(fn, present, fail)
         IN  /\ fail = "scan" => present
             /\ Charge(fail = "none")
             /\ durable' = [durable EXCEPT !.call =
                              [fn |-> fn, key |-> key, present |-> present,
                               fail |-> fail, found |-> out.found, err |-> out.err]]
             /\ lastErr' = out.err
    /\ UNCHANGED <<preLate, nodeWrites, resultQueue>>

NextLookup ==
    \/ \E table \in Tables : \E key \in RowKeys : SetRow(table, key)
    \/ \E fn \in Lookups : \E key \in RowKeys : CallLookup(fn, key)

SpecLookup == Init /\ [][NextLookup]_vars

\* ------------------------------------------------------- the round id fields
\* startValidate, lines 115-121, statement by statement: the store call
\* returns the ids to the goroutine, which assigns them to the fields of
\* the engine afterwards.  Two executions (a cron job and a
\* StartValidateOnceTask) write the fields without a lock, in either order.
GetRoundId(r) ==
    /\ r \in Runners /\ r.pc = "startValidate"
    /\ \E ok \in CallOutcomes :
        /\ Charge(ok)
        /\ IF ok
             THEN /\ roundId' = GetPreviousAndCurrentRoundId[2]
                  /\ Move(r, [pc |-> "assign",
                               pre |-> GetPreviousAndCurrentRoundId[1],
                               cur |-> GetPreviousAndCurrentRoundId[2],
                               manual |-> r.manual])
                  /\ lastErr' = noReturn
             ELSE /\ Return(r, errStore)
                  /\ UNCHANGED roundId
    /\ UNCHANGED <<verifying, rows, engineVars, cronVars, taskVars, handler,
                   scheduled, preflightDone>>

\* lines 119-121: v.preRoundId, v.curRoundId and v.seed are assigned; the
\* execution is not followed further.
AssignRoundId(r) ==
    /\ r \in Runners /\ r.pc = "assign"
    /\ preRoundId' = r.pre
    /\ curRoundId' = r.cur
    /\ seed' = r.cur
    /\ runners' = runners (-) SetToBag({r})
    /\ lastErr' = noReturn
    /\ UNCHANGED <<storeVars, validateState, enable, maxFidMap, cronVars, taskVars,
                   handler, scheduled, preflightDone, faults>>

InFields(A) ==
    /\ A
    /\ Budget(MaxRound)'
    /\ UNCHANGED <<clockVars, callVars>>

NextFields ==
    \/ InFields(StartValidateOnceTask)
    \/ InFields(RestartCron)
    \/ InFields(CronJob)
    \/ InFields(\E r \in Runners : GetRoundId(r))
    \/ InFields(\E r \in Runners : AssignRoundId(r))

SpecFields == Init /\ [][NextFields]_vars

\* ------------------------------------------------- the classification alone
MaxCids == 2           \* cids a result carries
MaxRandomCount == 2    \* random_count of a result
MaxSeed == 1           \* round seeds

CidSeqs == UNION {[1..n -> CidStrings] : n \in 0..MaxCids}

\* A result of an edge for the current round, the fid map GetBlocksFID
\* returns for the edge, whether GetBlocksFID fails, and the round seed.
ScoreInputs ==
    {[res |-> [RoundID |-> 0, DeviceID |-> d, IsCancel |-> c, IsTimeout |-> t,
               Cids |-> cids, RandomCount |-> n],
      cacheInfos |-> ci, queryErr |-> q, sd |-> sd, stored |-> FALSE,
      done |-> FALSE, out |-> [status |-> "", msg |-> "", panic |-> FALSE]] :
        d \in Edges, c \in BOOLEAN, t \in BOOLEAN, cids \in CidSeqs,
        n \in 0..MaxRandomCount, ci \in CacheInfos, q \in BOOLEAN,
        sd \in 0..MaxSeed}

InitScore ==
    InitEngine /\ verdict \in ScoreInputs /\ NoQuit /\ NoNodes /\ NoConnect /\ NoAuth

\* assemblyValidateReqAndStore, line 315: the max fid of a device is stored.
StoreMaxFid(d) ==
    /\ d \notin maxFidMap
    /\ maxFidMap' = maxFidMap \cup {d}
    /\ lastErr' = noReturn
    /\ UNCHANGED <<storeVars, preRoundId, curRoundId, seed, validateState, enable,
                   cronVars, clockVars, runners, taskVars, handler, scheduled,
                   preflightDone, faults, callVars>>

\* handleValidateResult, lines 434-475, on the result drawn; stored is
\* whether maxFidMap held the device at the call.
CallClassify ==
    /\ ~verdict.done
    /\ verdict' = [verdict EXCEPT
                      !.done = TRUE,
                      !.stored = verdict.res.DeviceID \in maxFidMap,
                      !.out = classify(verdict.res, verdict.cacheInfos,
                                       verdict.queryErr, verdict.sd)]
    /\ lastErr' = noReturn
    /\ UNCHANGED <<engine, clockVars, mapping, quitVars, nodeVars, connVars, authVars, mainProc>>

NextScore ==
    \/ \E d \in Devices : StoreMaxFid(d)
    \/ CallClassify

SpecScore == InitScore /\ [][NextScore]_vars

\* ------------------------------------------------ NodeQuit on the stores
MaxNeed == 2           \* need_reliability of a carfile record
MaxQuitCalls == 2      \* executions of NodeQuit in progress at once

CarfileHashes == {"h1", "h2"}
QuitDevices == {"n1", "n2"}
ReplicaStatuses == {"succeeded", "failed"}

\* The replicas of carfile hash with status succeeded among the rows rs.
Succeeded(rs, hash) ==
    Cardinality({r \in rs : r.carfile_hash = hash /\ r.status = "succeeded"})

\* The replica tables: one row at most for a carfile and a device.
ReplicaTables ==
    {{[carfile_hash |-> k[1], device_id |-> k[2], status |-> f[k]] : k \in DOMAIN f} :
        f \in UNION {[K -> ReplicaStatuses] :
                        K \in SUBSET (CarfileHashes \X QuitDevices)}}

\* The stores before any node quits: the replica manager has counted the
\* succeeded replicas of every carfile.
InitQuit ==
    /\ InitEngine
    /\ verdict = noVerdict
    /\ replicas \in ReplicaTables
    /\ carfiles \in {cf \in [CarfileHashes ->
                                [cur_reliability : 0..Cardinality(QuitDevices),
                                 need_reliability : 1..MaxNeed]] :
                        \A h \in CarfileHashes :
                            cf[h].cur_reliability = Succeeded(replicas, h)}
    /\ quitCalls = EmptyBag
    /\ quitLog = {}
    /\ waiting = {}
    /\ NoNodes
    /\ NoConnect
    /\ NoAuth

\* persistent.LoadCarfileRecordsWithNodes: the hashes of the carfiles with
\* a replica row on one of the devices.
LoadCarfileRecordsWithNodes(rs, deviceIDs) ==
    {r.carfile_hash : r \in {x \in rs : x.device_id \in deviceIDs}}

\* persistent.RemoveReplicaInfoWithNodes: the replica rows of the devices
\* are deleted.
RemoveReplicaInfoWithNodes(rs, deviceIDs) ==
    {r \in rs : r.device_id \notin deviceIDs}

QuitCalls == BagToSet(quitCalls)
QuitMove(c, next) == quitCalls' = (quitCalls (-) SetToBag({c})) (+) SetToBag({next})

\* NodeQuit, line 476: the callback is over and NodeQuit returns nil.
QuitReturn(c, event) ==
    /\ quitCalls' = quitCalls (-) SetToBag({c})
    /\ quitLog' = quitLog \cup {[deviceID |-> c.deviceID, event |-> event,
                                 hashs |-> c.hashs]}
    /\ lastErr' = errNone

\* A NodeQuit that passes every device to the node manager.
NodeQuitDevicesAll(deviceID) == QuitDevices

\* NodeQuit, line 474: the list passed to the node manager.
NodeQuitDevices(deviceID) == {deviceID}

\* Manager.NodesQuit: the node manager calls the callback it was built
\* with (line 63) on the list.
NodesQuit(deviceID, deviceIDs) ==
    quitCalls' = quitCalls (+) SetToBag({[pc |-> "load", deviceID |-> deviceID,
                                          deviceIDs |-> deviceIDs, hashs |-> {}]})

\* NodeQuit, lines 472-474.
NodeQuit(deviceID) ==
    /\ BagCardinality(quitCalls) < MaxQuitCalls
    /\ NodesQuit(deviceID, NodeQuitDevices(deviceID))
    /\ lastErr' = noReturn
    /\ UNCHANGED <<engine, clockVars, mapping, verdict, replicas, carfiles,
                   quitLog, waiting, nodeVars, connVars, authVars, mainProc>>

\* nodeExitedCallback, lines 493-497: the hashes are loaded.
nodeExitedLoad(c) ==
    /\ c.pc = "load"
    /\ \E ok \in CallOutcomes :
         /\ faults' = (IF ok THEN faults ELSE faults + 1)
         /\ IF ok
              THEN /\ QuitMove(c, [c EXCEPT !.pc = "remove",
                          !.hashs = LoadCarfileRecordsWithNodes(replicas, c.deviceIDs)])
                   /\ lastErr' = noReturn
                   /\ UNCHANGED quitLog
              ELSE QuitReturn(c, "LoadCarfileRecordsWithNodes err")
    /\ UNCHANGED <<roundId, verifying, rows, engineVars, cronVars, clockVars, runners,
                   taskVars, handler, scheduled, preflightDone, mapping, verdict,
                   replicas, carfiles, waiting, nodeVars, connVars, authVars, mainProc, calls, lateVars>>

\* nodeExitedCallback, lines 499-503: the replica rows are removed.
nodeExitedRemove(c) ==
    /\ c.pc = "remove"
    /\ \E ok \in CallOutcomes :
         /\ faults' = (IF ok THEN faults ELSE faults + 1)
         /\ IF ok
              THEN /\ replicas' = RemoveReplicaInfoWithNodes(replicas, c.deviceIDs)
                   /\ QuitMove(c, [c EXCEPT !.pc = "recache"])
                   /\ lastErr' = noReturn
                   /\ UNCHANGED quitLog
              ELSE /\ QuitReturn(c, "RemoveReplicaInfoWithNodes err")
                   /\ UNCHANGED replicas
    /\ UNCHANGED <<roundId, verifying, rows, engineVars, cronVars, clockVars, runners,
                   taskVars, handler, scheduled, preflightDone, mapping, verdict,
                   carfiles, waiting, nodeVars, connVars, authVars, mainProc, calls, lateVars>>

\* nodeExitedCallback, lines 505-509: every hash loaded is logged as
\* needing a restore, and the callback returns.
nodeExitedRecache(c) ==
    /\ c.pc = "recache"
    /\ QuitReturn(c, "need restore carfile")
    /\ UNCHANGED <<engine, clockVars, mapping, verdict, replicas, carfiles, waiting,
                   nodeVars, connVars, authVars, mainProc>>

NextQuit ==
    \/ \E d \in QuitDevices : NodeQuit(d)
    \/ \E c \in QuitCalls : nodeExitedLoad(c)
    \/ \E c \in QuitCalls : nodeExitedRemove(c)
    \/ \E c \in QuitCalls : nodeExitedRecache(c)

SpecQuit == InitQuit /\ [][NextQuit]_vars

\* --------------------------------------------------------- the node table
ServerNames == {"s1", "s2"}
NodeDevices == {"n1", "n2"}
NodeTypes == {"edge", "candidate"}
Addresses == {"a1", "a2"}

\* The NodeInfo values SetNodeInfo is called with.
NodeInfos == [is_online : BOOLEAN, node_type : NodeTypes, address : Addresses]

\* sqlDB.SetNodeInfo, lines 57-75, run with serverName = sName: the row of
\* the device is inserted, or updated in every column but node_type.
SetNodeInfo(tbl, sName, deviceID, info) ==
    IF deviceID \notin DOMAIN tbl
      THEN [d \in DOMAIN tbl \cup {deviceID} |->
               IF d = deviceID
                 THEN [server_name |-> sName, is_online |-> info.is_online,
                       node_type |-> info.node_type, address |-> info.address]
                 ELSE tbl[d]]
      ELSE [tbl EXCEPT ![deviceID] =
               [server_name |-> sName, is_online |-> info.is_online,
                node_type |-> tbl[deviceID].node_type, address |-> info.address]]

\* An update of is_online that has no WHERE clause.
SetAllNodeOfflineEverywhere(tbl, sName) ==
    [d \in DOMAIN tbl |-> [tbl[d] EXCEPT !.is_online = FALSE]]

\* sqlDB.SetAllNodeOffline, lines 77-82, run with serverName = sName.
SetAllNodeOffline(tbl, sName) ==
    [d \in DOMAIN tbl |->
        IF tbl[d].server_name = sName
          THEN [tbl[d] EXCEPT !.is_online = FALSE]
          ELSE tbl[d]]

\* A scheduler with server name sName writes the row of a device.
CallSetNodeInfo(sName, deviceID, info) ==
    /\ \E ok \in CallOutcomes :
         /\ faults' = (IF ok THEN faults ELSE faults + 1)
         /\ nodes' = (IF ok THEN SetNodeInfo(nodes, sName, deviceID, info) ELSE nodes)
         /\ nodeCall' = [op |-> "SetNodeInfo", sName |-> sName,
                         changed |-> IF ok THEN {deviceID} ELSE {}]
         /\ lastErr' = (IF ok THEN errNone ELSE errStore)
    /\ UNCHANGED <<roundVars, quitVars, connVars, authVars, mainProc>>

\* InitSQL, lines 35-50, run by the scheduler with server name sName: the
\* database is opened and pinged, then SetAllNodeOffline runs and its
\* error is the error of InitSQL.
InitSQL(sName) ==
    /\ \E ok \in CallOutcomes :
         /\ faults' = (IF ok THEN faults ELSE faults + 1)
         /\ nodes' = (IF ok THEN SetAllNodeOffline(nodes, sName) ELSE nodes)
         /\ nodeCall' = [op |-> "SetAllNodeOffline", sName |-> sName,
                         changed |-> {d \in DOMAIN nodes : nodes'[d] # nodes[d]}]
         /\ lastErr' = (IF ok THEN errNone ELSE errStore)
    /\ UNCHANGED <<roundVars, quitVars, connVars, authVars, mainProc>>

NextNodeTable ==
    \/ \E sName \in ServerNames, d \in NodeDevices, info \in NodeInfos :
          CallSetNodeInfo(sName, d, info)
    \/ \E sName \in ServerNames : InitSQL(sName)

SpecNodeTable == Init /\ [][NextNodeTable]_vars

\* ------------------------------------------- SetNodeInfo, statement by statement
\* sqlDB.SetNodeInfo, lines 57-75, is a GetNodeInfo followed by an INSERT
\* or an UPDATE; another call may run between the two statements.  The
\* node table is a set of rows; device_id is its primary key.
MaxWrites == 3
MaxInflight == 2
errDuplicate == "Duplicate entry"

\* Lines 58-60: the row the call carries, create_time being time.Now().
NodeRow(sName, deviceID, info, now) ==
    [device_id |-> deviceID, server_name |-> sName, is_online |-> info.is_online,
     node_type |-> info.node_type, address |-> info.address, create_time |-> now]

\* Lines 64-66: the INSERT of every column; the primary key rejects a
\* second row of the device.
InsertNode(table, row) ==
    IF \E r \in table : r.device_id = row.device_id
      THEN [table |-> table, err |-> errDuplicate]
      ELSE [table |-> table \cup {row}, err |-> errNone]

\* An UPDATE that writes every column of the row.
UpdateNodeEveryColumn(table, row) ==
    {IF r.device_id = row.device_id THEN row ELSE r : r \in table}

\* Lines 71-73: the UPDATE of last_time, geo, is_online, address and
\* server_name of the rows of the device.
UpdateNode(table, row) ==
    {IF r.device_id = row.device_id
       THEN [r EXCEPT !.is_online = row.is_online, !.address = row.address,
                      !.server_name = row.server_name]
       ELSE r : r \in table}

\* Lines 58-62: the call fills the row and reads the node of the device.
\* A failed query returns its error (line 68) and writes nothing.
GetNodeInfoStep(sName, deviceID, info) ==
    /\ nodeWrites.clock < MaxWrites
    /\ Cardinality(nodeWrites.inflight) < MaxInflight
    /\ \E ok \in CallOutcomes :
         LET w == [id |-> nodeWrites.clock,
                   row |-> NodeRow(sName, deviceID, info, nodeWrites.clock),
                   found |-> \E r \in nodeWrites.table : r.device_id = deviceID]
         IN  /\ Charge(ok)
             /\ nodeWrites' = [nodeWrites EXCEPT
                                 !.clock = @ + 1,
                                 !.inflight = IF ok THEN @ \cup {w} ELSE @,
                                 !.last = [op |-> IF ok THEN "read" ELSE "failed",
                                           deviceID |-> deviceID]]
             /\ lastErr' = (IF ok THEN noReturn ELSE errStore)
    /\ UNCHANGED <<preLate, durable, resultQueue>>

\* Lines 63-74: the INSERT when the read found no row, the UPDATE
\* otherwise; the error of the statement is the error of the call.
NamedExecStep(w) ==
    /\ w \in nodeWrites.inflight
    /\ \E ok \in CallOutcomes :
         LET ins == InsertNode(nodeWrites.table, w.row)
             d == w.row.device_id
             table == IF ~ok THEN nodeWrites.table
                      ELSE IF w.found THEN UpdateNode(nodeWrites.table, w.row)
                      ELSE ins.table
             err == IF ~ok THEN errStore
                    ELSE IF w.found THEN errNone
                    ELSE ins.err
             inserted == ok /\ ~w.found /\ ins.err = errNone
         IN  /\ Charge(ok)
             /\ nodeWrites' = [nodeWrites EXCEPT
                                 !.table = table,
                                 !.inflight = @ \ {w},
                                 !.first = IF inserted /\ d \notin DOMAIN @
                                             THEN @ @@ (d :> [node_type |-> w.row.node_type,
                                                              create_time |-> w.row.create_time])
                                             ELSE @,
                                 !.last = [op |-> IF ~ok THEN "failed"
                                                  ELSE IF w.found THEN "update"
                                                  ELSE IF inserted THEN "insert"
                                                  ELSE "duplicate",
                                           deviceID |-> d]]
             /\ lastErr' = err
    /\ UNCHANGED <<preLate, durable, resultQueue>>

NextNodeWrites ==
    \/ \E sName \in ServerNames, d \in NodeDevices, info \in NodeInfos :
          GetNodeInfoStep(sName, d, info)
    \/ \E w \in nodeWrites.inflight : NamedExecStep(w)

SpecNodeWrites == Init /\ [][NextNodeWrites]_vars

\* ------------------------------------------------- the queued result path
\* PushResultToQueue, doCallback and initCallbackTask, lines 377-407.  The
\* queue is a container/list shared without a lock by the goroutines that
\* push and the one that consumes; the channel has room for one signal.
MaxPush == 3           \* results pushed
MaxPushers == 2        \* executions of PushResultToQueue in progress at once
ChannelCap == 1        \* make(chan bool, 1)

\* The position of a racing PushBack: behind the elements of the list the
\* pusher has seen.
SeenIn(list, seen) ==
    Cardinality({i \in 1..Len(list) : \E j \in 1..Len(seen) : seen[j] = list[i]})

InsertAt(list, k, id) ==
    [i \in 1..(Len(list) + 1) |->
        IF i <= k THEN list[i] ELSE IF i = k + 1 THEN id ELSE list[i - 1]]

\* list.PushBack of a goroutine that read the tail when the list was seen,
\* against the list as it is now.  Without another writer in between the
\* element is the new tail.  Otherwise the accesses race: the element is
\* linked as the tail, linked behind the tail it read, or linked to nothing
\* and lost; linking to an element that has been removed dereferences nil.
PushBackOutcomes(list, seen, id) ==
    IF list = seen
      THEN {[list |-> Append(list, id), panic |-> FALSE]}
      ELSE {[list |-> Append(list, id), panic |-> FALSE],
            [list |-> InsertAt(list, SeenIn(list, seen), id), panic |-> FALSE],
            [list |-> list, panic |-> FALSE]}
           \cup (IF seen # <<>> /\ SeenIn(list, seen) = 0
                   THEN {[list |-> list, panic |-> TRUE]} ELSE {})

\* PushResultToQueue, line 405: the call begins and PushBack reads the tail.
PushResultToQueue ==
    /\ ~resultQueue.crashed
    /\ resultQueue.next <= MaxPush
    /\ Cardinality(resultQueue.pushers) < MaxPushers
    /\ resultQueue' = [resultQueue EXCEPT
                         !.next = @ + 1,
                         !.pushers = @ \cup {[id |-> resultQueue.next, pc |-> "PushBack",
                                              seen |-> resultQueue.list]}]

\* PushResultToQueue, line 405: PushBack links the element.
PushBack(p) ==
    /\ ~resultQueue.crashed
    /\ p \in resultQueue.pushers /\ p.pc = "PushBack"
    /\ \E out \in PushBackOutcomes(resultQueue.list, p.seen, p.id) :
         resultQueue' = [resultQueue EXCEPT
                           !.list = out.list,
                           !.crashed = out.panic,
                           !.pushed = Append(@, p.id),
                           !.pushers = (@ \ {p}) \cup
                                       {[id |-> p.id, pc |-> "send", seen |-> <<>>]}]

\* PushResultToQueue, line 406: the send, which waits for room.
SendSignal(p) ==
    /\ ~resultQueue.crashed
    /\ p \in resultQueue.pushers /\ p.pc = "send"
    /\ resultQueue.channel < ChannelCap
    /\ resultQueue' = [resultQueue EXCEPT !.channel = @ + 1, !.pushers = @ \ {p}]

\* initCallbackTask, lines 378-383: a signal is received.
initCallbackTask ==
    /\ ~resultQueue.crashed
    /\ resultQueue.consumer.pc = "recv"
    /\ resultQueue.channel > 0
    /\ resultQueue' = [resultQueue EXCEPT !.channel = @ - 1,
                                          !.consumer = [pc |-> "doCallback"]]

\* doCallback, lines 387-392: the loop condition and Front.
doCallback ==
    /\ ~resultQueue.crashed
    /\ resultQueue.consumer.pc = "doCallback"
    /\ resultQueue' = [resultQueue EXCEPT
                         !.consumer = IF Len(resultQueue.list) > 0
                                        THEN [pc |-> "handle", element |-> Head(resultQueue.list)]
                                        ELSE [pc |-> "recv"]]

\* doCallback, lines 393-400: the result is handled and removed.
doCallbackElement ==
    /\ ~resultQueue.crashed
    /\ resultQueue.consumer.pc = "handle"
    /\ resultQueue' = [resultQueue EXCEPT
                         !.handled = Append(@, resultQueue.consumer.element),
                         !.list = SelectSeq(@, LAMBDA e : e # resultQueue.consumer.element),
                         !.consumer = [pc |-> "doCallback"]]

InQueue(A) ==
    /\ A
    /\ lastErr' = noReturn
    /\ UNCHANGED <<preLate, durable, nodeWrites, faults>>

NextQueue ==
    \/ InQueue(PushResultToQueue)
    \/ InQueue(\E p \in resultQueue.pushers : PushBack(p))
    \/ InQueue(\E p \in resultQueue.pushers : SendSignal(p))
    \/ InQueue(initCallbackTask)
    \/ InQueue(doCallback)
    \/ InQueue(doCallbackElement)

SpecQueue == Init /\ [][NextQueue]_vars

\* ------------------------------- EdgeNodeConnect / CandidateNodeConnect
MaxConnects == 3       \* connect calls that pass the registration check

ThisServer == "s1"
errNotExist == "node not Exist"
errConnectRPC == "ConnectRPC err"
errMismatch == "deviceID mismatch"
ConnectErrors == {errNotExist, errConnectRPC, errMismatch, errStore}

Secrets == {"k1", "k2"}

\* The registrations: the type and the secret each registered device was
\* allocated with.
Registrations ==
    UNION {[D -> [node_type : NodeTypes, secret : Secrets]] : D \in SUBSET NodeDevices}

InitConnect ==
    /\ InitEngine
    /\ verdict = noVerdict
    /\ NoQuit
    /\ NoNodes
    /\ register \in {r \in Registrations : \A d \in DOMAIN r : r[d].secret = "k1"}
    /\ edgeSessions = <<>>
    /\ candidateSessions = <<>>
    /\ syncList = {}
    /\ connects = {}
    /\ nextSession = 0
    /\ connected = {}
    /\ NoAuth

\* A registration check that accepts a device of any type.
deviceExistsAnyType(deviceID, nodeType) == deviceID \in DOMAIN register

\* deviceExists, lines 581-593, when GetNodeAllocateInfo returns the
\* registration: the device is registered with the type of the connect.
deviceExists(deviceID, nodeType) ==
    /\ deviceID \in DOMAIN register
    /\ register[deviceID].node_type = nodeType

\* The session map the node manager keeps for a node type.
Store(m, deviceID, session) ==
    [d \in DOMAIN m \cup {deviceID} |-> IF d = deviceID THEN session ELSE m[d]]

\* Manager.EdgeOnline / Manager.CandidateOnline: the session replaces the
\* one the map of the type held for the device.
NodeOnline(c) ==
    IF c.nodeType = "edge"
      THEN /\ edgeSessions' = Store(edgeSessions, c.deviceID, c.session)
           /\ UNCHANGED candidateSessions
      ELSE /\ candidateSessions' = Store(candidateSessions, c.deviceID, c.session)
           /\ UNCHANGED edgeSessions

ConnectReturn(c, err) ==
    /\ connects' = connects \ {c}
    /\ connected' = (IF err = errNone THEN connected \cup {c.deviceID} ELSE connected)
    /\ lastErr' = err

\* CandidateNodeConnect, lines 163-169, and EdgeNodeConnect, lines 237-243,
\* called for the authenticated deviceID by a node that reports the device
\* id reported: the registration check; GetNodeAllocateInfo may fail.
NodeConnect(nodeType, deviceID, reported) ==
    /\ nextSession < MaxConnects
    /\ \E ok \in CallOutcomes :
         /\ faults' = (IF ok THEN faults ELSE faults + 1)
         /\ IF ok /\ deviceExists(deviceID, nodeType)
              THEN /\ connects' = connects \cup
                          {[pc |-> "ConnectRPC", nodeType |-> nodeType,
                            deviceID |-> deviceID, reported |-> reported,
                            session |-> nextSession + 1]}
                   /\ nextSession' = nextSession + 1
                   /\ lastErr' = noReturn
              ELSE /\ lastErr' = errNotExist
                   /\ UNCHANGED <<connects, nextSession>>
    /\ UNCHANGED <<roundVars, quitVars, authVars, mainProc, nodeVars, register, registryVars, connected>>

\* Lines 171-203 and 245-277: the RPC client, DeviceInfo, the device id
\* check and the private key.
connectRPC(c) ==
    /\ c.pc = "ConnectRPC"
    /\ \E ok \in CallOutcomes :
         /\ faults' = (IF ok THEN faults ELSE faults + 1)
         /\ IF ~ok
              THEN ConnectReturn(c, errConnectRPC)
              ELSE IF c.deviceID # c.reported
                THEN ConnectReturn(c, errMismatch)
                ELSE /\ connects' = (connects \ {c}) \cup {[c EXCEPT !.pc = "Online"]}
                     /\ lastErr' = noReturn
                     /\ UNCHANGED connected
    /\ UNCHANGED <<roundVars, quitVars, authVars, mainProc, nodeVars, register, registryVars, nextSession>>

\* Lines 216-220 and 290-294: CandidateOnline / EdgeOnline.
connectOnline(c) ==
    /\ c.pc = "Online"
    /\ \E ok \in CallOutcomes :
         /\ faults' = (IF ok THEN faults ELSE faults + 1)
         /\ IF ok
              THEN /\ NodeOnline(c)
                   /\ connects' = (connects \ {c}) \cup {[c EXCEPT !.pc = "SaveInfo"]}
                   /\ lastErr' = noReturn
                   /\ UNCHANGED connected
              ELSE /\ ConnectReturn(c, errStore)
                   /\ UNCHANGED <<edgeSessions, candidateSessions>>
    /\ UNCHANGED <<roundVars, quitVars, authVars, mainProc, nodeVars, register, syncList, nextSession>>

\* Lines 222-226 and 296-300: SaveInfo marks the node online in the
\* node table.
connectSaveInfo(c) ==
    /\ c.pc = "SaveInfo"
    /\ \E ok \in CallOutcomes :
         /\ faults' = (IF ok THEN faults ELSE faults + 1)
         /\ IF ok
              THEN /\ \E a \in Addresses :
                        nodes' = SetNodeInfo(nodes, ThisServer, c.deviceID,
                                     [is_online |-> TRUE, node_type |-> c.nodeType,
                                      address |-> a])
                   /\ nodeCall' = [op |-> "SetNodeInfo", sName |-> ThisServer,
                                   changed |-> {c.deviceID}]
                   /\ connects' = (connects \ {c}) \cup {[c EXCEPT !.pc = "Add2List"]}
                   /\ lastErr' = noReturn
                   /\ UNCHANGED connected
              ELSE /\ ConnectReturn(c, errStore)
                   /\ UNCHANGED nodeVars
    /\ UNCHANGED <<roundVars, quitVars, authVars, mainProc, register, registryVars, nextSession>>

\* Lines 228-233 and 302-307: the device goes on the list of the data
\* sync and the connect returns nil.
connectAdd2List(c) ==
    /\ c.pc = "Add2List"
    /\ syncList' = syncList \cup {c.deviceID}
    /\ ConnectReturn(c, errNone)
    /\ UNCHANGED <<roundVars, quitVars, authVars, mainProc, nodeVars, register, edgeSessions,
                   candidateSessions, nextSession, faults>>

NextConnect ==
    \/ \E nodeType \in NodeTypes, deviceID \in NodeDevices, reported \in NodeDevices :
          NodeConnect(nodeType, deviceID, reported)
    \/ \E c \in connects : connectRPC(c)
    \/ \E c \in connects : connectOnline(c)
    \/ \E c \in connects : connectSaveInfo(c)
    \/ \E c \in connects : connectAdd2List(c)

SpecConnect == InitConnect /\ [][NextConnect]_vars

\* ------------------------------------------ AuthNodeNew / AuthNodeVerify
MaxTokens == 2         \* tokens signed

APISecret == "k0"
Permissions == {"read", "write"}
errVerify == "JWT Verification failed"
errSecret == "secret not match"
errLookup == "GetRegisterInfo failed"

\* jwt.Sign with HS256: the payload under the MAC of the key.
Sign(allow, key) == [allow |-> allow, key |-> key]

\* jwt.Verify with HS256: the MAC of the token is the MAC under the key.
Verify(token, key) == token.key = key

\* Tokens signed with a key nobody was given.
ForgedTokens == {Sign(allow, "kx") : allow \in SUBSET Permissions}

Tokens == {i.token : i \in issued}

InitAuth ==
    /\ InitEngine
    /\ verdict = noVerdict
    /\ NoQuit
    /\ NoNodes
    /\ register \in {r \in Registrations : \A d \in DOMAIN r : r[d].node_type = "edge"}
    /\ edgeSessions = <<>>
    /\ candidateSessions = <<>>
    /\ syncList = {}
    /\ connects = {}
    /\ nextSession = 0
    /\ connected = {}
    /\ NoAuth

\* CommonAPI.AuthNew, called by authNew at lines 516-534: a token signed
\* with the secret of the scheduler.
AuthNew(perms) ==
    /\ Cardinality(issued) < MaxTokens
    /\ issued' = issued \cup {[token |-> Sign(perms, APISecret), deviceID |-> ""]}
    /\ lastErr' = errNone
    /\ UNCHANGED <<roundVars, quitVars, mainProc, nodeVars, connVars, authCall, faults>>

\* A comparison that accepts every secret.
secretMatchesAny(secret, deviceSecret) == TRUE

\* AuthNodeNew, line 155: the registered secret against the supplied one.
secretMatches(secret, deviceSecret) == secret = deviceSecret

\* AuthNodeNew, lines 144-160.
AuthNodeNew(perms, deviceID, deviceSecret) ==
    /\ Cardinality(issued) < MaxTokens
    /\ \E ok \in CallOutcomes :
         /\ faults' = (IF ok THEN faults ELSE faults + 1)
         /\ IF ~ok \/ deviceID \notin DOMAIN register
              THEN lastErr' = errLookup /\ UNCHANGED issued
              ELSE IF ~secretMatches(register[deviceID].secret, deviceSecret)
                THEN lastErr' = errSecret /\ UNCHANGED issued
                ELSE /\ issued' = issued \cup {[token |-> Sign(perms, deviceSecret),
                                                deviceID |-> deviceID]}
                     /\ lastErr' = errNone
    /\ UNCHANGED <<roundVars, quitVars, mainProc, nodeVars, connVars, authCall>>

\* A choice of key that ignores the device id of the context.
VerifyKeyGlobal(deviceID) == APISecret

\* AuthNodeVerify, lines 120-137: the key the token is checked against,
\* for the device id of the context ("" when it carries none).
VerifyKey(deviceID) ==
    IF deviceID = "" THEN APISecret ELSE register[deviceID].secret

\* AuthNodeVerify, lines 117-141.
AuthNodeVerify(deviceID, token) ==
    /\ \E ok \in (IF deviceID = "" THEN {TRUE} ELSE CallOutcomes) :
         /\ faults' = (IF ok THEN faults ELSE faults + 1)
         /\ IF deviceID # "" /\ (~ok \/ deviceID \notin DOMAIN register)
              THEN /\ lastErr' = errLookup
                   /\ authCall' = [deviceID |-> deviceID, token |-> token, perms |-> {}]
              ELSE IF Verify(token, VerifyKey(deviceID))
                THEN /\ lastErr' = errNone
                     /\ authCall' = [deviceID |-> deviceID, token |-> token,
                                     perms |-> token.allow]
                ELSE /\ lastErr' = errVerify
                     /\ authCall' = [deviceID |-> deviceID, token |-> token,
                                     perms |-> {}]
    /\ UNCHANGED <<roundVars, quitVars, mainProc, nodeVars, connVars, issued>>

NextAuth ==
    \/ \E perms \in SUBSET Permissions : AuthNew(perms)
    \/ \E perms \in SUBSET Permissions, d \in NodeDevices, k \in Secrets :
          AuthNodeNew(perms, d, k)
    \/ \E d \in NodeDevices \cup {""}, token \in Tokens \cup ForgedTokens :
          AuthNodeVerify(d, token)

SpecAuth == InitAuth /\ [][NextAuth]_vars

\* ------------------------------------------------- main and the run command
EdgeFDLimit == 2       \* build.EdgeFDLimit
MaxLimit == 3          \* soft file descriptor limits 0..MaxLimit

exitPanic == 2         \* exit code of a Go process that ends in a panic
running == -1          \* no exit code yet

LimitErrs == {"nil", "ErrUnsupported", "err"}
ListenAddresses == {"0.0.0.0:3456", "0.0.0.0", "0.0.0.0:x"}
InitSteps == <<"NewCacheDB", "NewRegion", "NewDB", "openRepo">>

\* strings.Split(address, ":"), by what the flag values above split into.
SplitAddress(address) ==
    CASE address = "0.0.0.0:3456" -> <<"0.0.0.0", "3456">>
      [] address = "0.0.0.0:x" -> <<"0.0.0.0", "x">>
      [] OTHER -> <<address>>

\* strconv.Atoi succeeds on a decimal number.
AtoiOk(str) == str = "3456"

MainInputs ==
    [pc : {"GetLimit"}, limit : 0..MaxLimit, limitErr : LimitErrs,
     area : {"", "CN-GD-Shenzhen"}, sName : {"", "s1"}, address : ListenAddresses,
     cause : {""}, exit : {running}]

InitMain ==
    /\ InitEngine
    /\ verdict = noVerdict
    /\ NoQuit
    /\ NoNodes
    /\ NoConnect
    /\ issued = {}
    /\ authCall = noAuthCall
    /\ mainProc \in MainInputs

MainFrame == UNCHANGED <<engine, clockVars, mapping, verdict, quitVars, nodeVars,
                         connVars, authVars>>

\* A panic nothing recovers ends the process with exit code 2.
Panic(cause) ==
    mainProc' = [mainProc EXCEPT !.pc = "exited", !.cause = cause, !.exit = exitPanic]

\* main, lines 94-98: the error of app.Run is logged and main returns,
\* with or without an error.
ExitCodeOfMain(failed) == 0

\* The action of the run command returns err to app.Run and main returns.
ReturnErr(cause) ==
    mainProc' = [mainProc EXCEPT !.pc = "exited", !.cause = cause,
                                 !.exit = ExitCodeOfMain(TRUE)]

\* runCmd, lines 212-222: the file descriptor limit.
GetLimit ==
    /\ mainProc.pc = "GetLimit"
    /\ IF mainProc.limitErr = "ErrUnsupported"
         THEN mainProc' = [mainProc EXCEPT !.pc = "flags"]
         ELSE IF mainProc.limitErr # "nil"
           THEN ReturnErr("checking fd limit")
           ELSE IF mainProc.limit < EdgeFDLimit
             THEN ReturnErr("fd limit too low")
             ELSE mainProc' = [mainProc EXCEPT !.pc = "flags"]
    /\ lastErr' = noReturn
    /\ MainFrame

\* runCmd, lines 230-239: the area and server-name flags.
CheckFlags ==
    /\ mainProc.pc = "flags"
    /\ IF mainProc.area = ""
         THEN Panic("area is nil")
         ELSE IF mainProc.sName = ""
           THEN Panic("server-name is nil")
           ELSE mainProc' = [mainProc EXCEPT !.pc = InitSteps[1]]
    /\ lastErr' = noReturn
    /\ MainFrame

\* runCmd, lines 241-261: NewCacheDB, NewRegion, NewDB and openRepo, each
\* followed by log.Panic on an error.
InitStep(i) ==
    /\ mainProc.pc = InitSteps[i]
    /\ \E ok \in BOOLEAN :
         IF ok
           THEN mainProc' = [mainProc EXCEPT
                               !.pc = IF i < Len(InitSteps) THEN InitSteps[i + 1]
                                      ELSE "listen"]
           ELSE Panic(InitSteps[i])
    /\ lastErr' = noReturn
    /\ MainFrame

\* runCmd, lines 263-271: the port of the listen address, then
\* NewLocalScheduleNode, which panics when the secret or the tokens fail.
ParseListen ==
    /\ mainProc.pc = "listen"
    /\ IF Len(SplitAddress(mainProc.address)) < 2
         THEN Panic("bad listen address")
         ELSE IF ~AtoiOk(SplitAddress(mainProc.address)[2])
           THEN Panic("bad listen address")
           ELSE \E ok \in BOOLEAN :
                  IF ok THEN mainProc' = [mainProc EXCEPT !.pc = "ListenPacket"]
                        ELSE Panic("NewLocalScheduleNode")
    /\ lastErr' = noReturn
    /\ MainFrame

\* runCmd, lines 281-285: the UDP listener.
ListenPacket ==
    /\ mainProc.pc = "ListenPacket"
    /\ \E ok \in BOOLEAN :
         IF ok THEN mainProc' = [mainProc EXCEPT !.pc = "Listen"]
               ELSE ReturnErr("udp listen")
    /\ lastErr' = noReturn
    /\ MainFrame

\* runCmd, lines 307-310: the TCP listener.
Listen ==
    /\ mainProc.pc = "Listen"
    /\ \E ok \in BOOLEAN :
         IF ok THEN mainProc' = [mainProc EXCEPT !.pc = "Serve"]
               ELSE ReturnErr("tcp listen")
    /\ lastErr' = noReturn
    /\ MainFrame

\* runCmd, lines 297-304 and 314: the context is cancelled, srv.Shutdown
\* makes srv.Serve return http.ErrServerClosed.
Shutdown ==
    /\ mainProc.pc = "Serve"
    /\ "exit" \in DOMAIN mainProc      \* the process whose start is followed
    /\ ReturnErr("shutdown")
    /\ lastErr' = noReturn
    /\ MainFrame

NextMain ==
    \/ GetLimit
    \/ CheckFlags
    \/ \E i \in 1..Len(InitSteps) : InitStep(i)
    \/ ParseListen
    \/ ListenPacket
    \/ Listen
    \/ Shutdown

SpecMain == InitMain /\ [][NextMain]_vars

\* ------------------------------------------------------------ properties
\* C1: handleValidateResult called with a result whose round id is not the
\* current round id returns the round mismatch error and changes nothing:
\* no row, not the verifying set, not the validate state, and it leaves no
\* update or deferred call behind.
C1_StaleResultRejected ==
    [][\A res \in ValidateResults :
         (res.RoundID # curRoundId /\ handleValidateResult(res))
            => /\ lastErr' = errRoundMismatch
               /\ handler' = idleHandler
               /\ UNCHANGED <<storeVars, engineVars, runners, taskVars>>]_vars

\* A stale result was refused while a round was in progress with a device
\* under validation and its row still in status created.
C1_Witness ==
    /\ lastErr = errRoundMismatch
    /\ validateState = validationStarting
    /\ \E row \in rows : /\ row.status = ValidateStatusCreate
                         /\ row.device_id \in verifying
                         /\ row.round_id = curRoundId

\* C2: the timeout goroutine that a preflight starts for device d records
\* status timeout with message "time out" on the row (r, d), r being the
\* previous round id that preflight obtained.
C2_TimeoutOnPreviousRound ==
    [][\A t \in timeoutTasks :
         (TimeOutTask(t) /\ faults' = faults)
            => \A row \in rows' :
                 (row.round_id = t.pre /\ row.device_id = t.deviceID)
                    => /\ row.status = ValidateStatusTimeOut
                       /\ row.msg = errMsgTimeOut]_vars

\* C3: a startValidate that got past its preflight leaves no device of an
\* earlier round in the verifying set, in a disabled round (it returns nil
\* at the enable check) as in an enabled one (it goes on to the plan).
C3_PreflightClearsVerifying ==
    [][\A r \in Runners :
         /\ (checkValidateTimeOut(r) /\ lastErr' = errNone) => verifying' = {}
         /\ (execute(r) /\ lastErr' = noReturn) => verifying' = {}]_vars

\* C4: every device a preflight finds in the verifying set was added to it
\* in the round before, the round of the previous round id of that
\* preflight.
C4_VerifyingFromPreviousRound ==
    \A t \in timeoutTasks : <<t.pre, t.deviceID>> \in scheduled

\* C5: a row that has a terminal status is not written again.
C5_TerminalOnce ==
    [][\A row \in rows : row.status \in TerminalStatus => row \in rows']_vars

\* C6: once the preflight of a later round has returned and its timeout
\* goroutines have run, every row of the rounds before has a terminal
\* status.
C6_RowsTerminalAfterNextPreflight ==
    (timeoutTasks = {} /\ handler = idleHandler)
        => \A row \in rows :
             row.round_id < preflightDone => row.status \in TerminalStatus

\* C7: in a plan of validateMapping no validator has itself in its list,
\* and a candidate that drew itself is in no list of the plan.
C7_NoSelfValidation ==
    \A v \in DOMAIN mapping.result :
        /\ v \notin mapping.result[v]
        /\ \A c \in mapping.candidateNodes :
             mapping.draw[c] = c => c \notin mapping.result[v]

\* A plan in which a candidate drew itself and validates other nodes.
C7_Witness ==
    \E c \in mapping.candidateNodes :
        /\ mapping.draw[c] = c
        /\ c \in DOMAIN mapping.result
        /\ mapping.result[c] # {}

\* C8: no two executions of startValidate are active at the same time, and
\* the dispatch goroutines that run are those of one round.
C8_OneRoundAtATime ==
    /\ Active <= 1
    /\ \A t1, t2 \in dispatchTasks : t1.round = t2.round

\* C9: StartValidateOnceTask called in state validationStarting returns the
\* in-progress error and changes nothing: not the round id, the crontab,
\* the restart goroutines, the enable flag or the verifying set, and no
\* startValidate begins.
C9_InProgressRefused ==
    [][(validateState = validationStarting /\ StartValidateOnceTask)
          => /\ lastErr' = errInProgress
             /\ UNCHANGED <<storeVars, engineVars, cronVars, clockVars, runners,
                            taskVars, handler>>]_vars

\* StartValidateOnceTask was refused while the crontab was running, the
\* validation was disabled and a device was under validation.
C9_Witness ==
    /\ lastErr = errInProgress
    /\ validateState = validationStarting
    /\ cronRunning /\ sleepers = 0
    /\ ~enable
    /\ verifying # {}

\* C10: an accepted StartValidateOnceTask stops the crontab and begins one
\* startValidate; the crontab is not started again before one interval has
\* passed since the latest accepted StartValidateOnceTask.
C10_RestartAfterInterval ==
    [][/\ sleepers' > sleepers
          => ~cronRunning' /\ Active' = Active + 1 /\ sinceManual' = 0
       /\ (~cronRunning /\ cronRunning') => sinceManual >= IntervalTicks]_vars

C12_EmptyValidatorListNoOp ==
    [][\A r \in Runners :
         (executeMapping(r) /\ lastErr' = errNone /\ dispatchTasks' = {})
            => /\ validateState' = validationNotStarted
               /\ UNCHANGED <<rows, verifying>>]_vars

\* C13: a cancelled result is written as cancelled whatever else it
\* carries; otherwise a timed out result is written as timeout; otherwise a
\* result without cids or with random count 0 is written as fail with the
\* fixed message; a result is scored only when none of these holds.
C13_ClassificationOrder ==
    verdict.done =>
      LET res == verdict.res
          out == verdict.out
          early == res.IsCancel \/ res.IsTimeout
                   \/ Len(res.Cids) = 0 \/ res.RandomCount = 0
      IN  /\ res.IsCancel
             => out = [status |-> ValidateStatusCancel, msg |-> errMsgCancel,
                       panic |-> FALSE]
          /\ (~res.IsCancel /\ res.IsTimeout)
             => out = [status |-> ValidateStatusTimeOut, msg |-> errMsgTimeOut,
                       panic |-> FALSE]
          /\ (~res.IsCancel /\ ~res.IsTimeout
                /\ (Len(res.Cids) = 0 \/ res.RandomCount = 0))
             => out = [status |-> ValidateStatusFail, msg |-> errMsgNull,
                       panic |-> FALSE]
          /\ (\/ out.panic
              \/ out.status \in {ValidateStatusSuccess, ValidateStatusOther}
              \/ (out.status = ValidateStatusFail /\ out.msg # errMsgNull))
             => ~early

\* A result that is cancelled, timed out and without cids was classified.
C13_Witness ==
    /\ verdict.done
    /\ verdict.res.IsCancel /\ verdict.res.IsTimeout
    /\ verdict.res.Cids = <<>> /\ verdict.res.RandomCount = 0
    /\ verdict.out.status = ValidateStatusCancel

\* The draws of a scored result: the fid of index i, the indexes whose fid
\* the fid map of the node holds, and those of them whose cid has another
\* hash than the cid returned.
FidAt(i) == ((verdict.sd + i) % MaxFid) + 1
Compared ==
    {i \in 0..(verdict.res.RandomCount - 1) : FidAt(i) \in DOMAIN verdict.cacheInfos}
Mismatched ==
    {i \in Compared : CIDString2HashString(verdict.cacheInfos[FidAt(i)])
                        # CIDString2HashString(verdict.res.Cids[i + 1])}
Scored ==
    /\ verdict.done
    /\ ~verdict.res.IsCancel /\ ~verdict.res.IsTimeout
    /\ verdict.res.RandomCount > 0
    /\ Len(verdict.res.Cids) >= verdict.res.RandomCount
    /\ ~verdict.queryErr /\ DOMAIN verdict.cacheInfos # {}
    /\ verdict.stored

\* C14: a scored result is written as success when the cid of every index
\* whose fid the node holds has the hash of the cid returned, indexes whose
\* fid the node does not hold being skipped; otherwise as fail, with the
\* message of the first such index that differs.
C14_Scoring ==
    Scored =>
      IF Mismatched = {}
        THEN verdict.out = [status |-> ValidateStatusSuccess, msg |-> "ok",
                            panic |-> FALSE]
        ELSE LET i == CHOOSE j \in Mismatched : \A k \in Mismatched : j <= k
             IN  verdict.out =
                   [status |-> ValidateStatusFail,
                    msg |-> failMsg(verdict.res.Cids[i + 1],
                                    verdict.cacheInfos[FidAt(i)], FidAt(i), i),
                    panic |-> FALSE]

\* A result of two draws was written as success: one draw was skipped, the
\* other compared two encodings of one hash.
C14_Witness ==
    /\ Scored
    /\ verdict.res.RandomCount = 2
    /\ Cardinality(Compared) = 1
    /\ \E i \in Compared : verdict.cacheInfos[FidAt(i)] # verdict.res.Cids[i + 1]
    /\ verdict.out.status = ValidateStatusSuccess

\* C15: a scored result all of whose draws were skipped is written as
\* fail.
C15_AllSkippedFails ==
    (Scored /\ Compared = {}) => verdict.out.status = ValidateStatusFail

C17_DisabledRoundDispatchesNothing ==
    [][\A r \in Runners :
         (~enable /\ checkValidateTimeOut(r) /\ lastErr' # errStore)
            => /\ lastErr' = errNone
               /\ Active' = Active - 1
               /\ validateState' = validationNotStarted
               /\ r.pre < roundId
               /\ timeoutTasks' = timeoutTasks \cup
                     {[deviceID |-> d, pre |-> r.pre] : d \in verifying}
               /\ UNCHANGED <<roundId, rows, verifying, dispatchTasks>>]_vars

\* A disabled second round has returned: it timed out the device of the
\* first round and nothing is being dispatched.
C17_Witness ==
    /\ ~enable /\ lastErr = errNone /\ Active = 0
    /\ roundId = 2 /\ preflightDone = 2
    /\ validateState = validationNotStarted
    /\ dispatchTasks = {}
    /\ \E t \in timeoutTasks : t.pre = 1
    /\ \A row \in rows : row.round_id = 1

\* The executions of NodeQuit(d) that ran to the end of the callback.
Quit(d) == {e \in quitLog : e.deviceID = d /\ e.event = "need restore carfile"}

\* C18: once a NodeQuit has been handled and none is in progress, every
\* carfile record counts its succeeded replicas: cur_reliability is the
\* number of replica rows of the carfile with status succeeded.
C18_ReliabilityCountsSucceeded ==
    ((\E d \in QuitDevices : Quit(d) # {}) /\ quitCalls = EmptyBag)
        => \A h \in CarfileHashes :
              carfiles[h].cur_reliability = Succeeded(replicas, h)

\* C19: once a NodeQuit has been handled, every carfile that had a replica
\* on the device has been handed to the replica manager.
C19_QuitHandsCarfilesOver ==
    \A d \in QuitDevices : \A e \in Quit(d) : e.hashs \subseteq waiting

C21_SetAllNodeOfflineScoped ==
    [][\A sName \in ServerNames :
         (InitSQL(sName) /\ lastErr' = errNone)
            => /\ DOMAIN nodes' = DOMAIN nodes
               /\ \A d \in DOMAIN nodes :
                    IF nodes[d].server_name = sName
                      THEN /\ ~nodes'[d].is_online
                           /\ nodes'[d].server_name = sName
                           /\ nodes'[d].node_type = nodes[d].node_type
                           /\ nodes'[d].address = nodes[d].address
                      ELSE nodes'[d] = nodes[d]]_vars

\* s1 has started again while a node of s1 and a node of s2 were online:
\* the node of s1 is offline, the node of s2 still online.
C21_Witness ==
    /\ lastErr = errNone
    /\ nodeCall = [op |-> "SetAllNodeOffline", sName |-> "s1", changed |-> {"n1"}]
    /\ DOMAIN nodes = NodeDevices
    /\ nodes["n1"].server_name = "s1" /\ ~nodes["n1"].is_online
    /\ nodes["n2"].server_name = "s2" /\ nodes["n2"].is_online

\* C22: a connect of a device without registration, of a device
\* registered with another type, or by a node that reports another device
\* id returns an error and changes neither the session maps, nor the node
\* table, nor the list of the data sync.
C22_ConnectRejectedUnchanged ==
    [][/\ \A nodeType \in NodeTypes, deviceID \in NodeDevices, reported \in NodeDevices :
            ((deviceID \notin DOMAIN register \/ register[deviceID].node_type # nodeType)
                /\ NodeConnect(nodeType, deviceID, reported))
               => /\ lastErr' = errNotExist
                  /\ UNCHANGED <<registryVars, nodes, connects>>
       /\ \A c \in connects :
            (c.reported # c.deviceID /\ connectRPC(c))
               => /\ lastErr' \in {errMismatch, errConnectRPC}
                  /\ connects' = connects \ {c}
                  /\ UNCHANGED <<registryVars, nodes>>]_vars

\* An edge connect of a registered candidate has been refused while the
\* device was connected as a candidate.
C22_Witness ==
    /\ lastErr = errNotExist
    /\ faults = 0
    /\ \E d \in DOMAIN candidateSessions : d \in syncList /\ register[d].node_type = "candidate"

\* The sessions the node manager holds for a device.
SessionsOf(d) ==
    (IF d \in DOMAIN edgeSessions THEN {<<"edge", edgeSessions[d]>>} ELSE {})
       \cup (IF d \in DOMAIN candidateSessions
               THEN {<<"candidate", candidateSessions[d]>>} ELSE {})

\* C23: a device whose connect has returned nil has one session, in the
\* map of its registered type, is online in the node table and is on the
\* list of the data sync; a connect that returns an error leaves its
\* session in no map.
C23_OneSessionAfterConnect ==
    [][/\ \A d \in connected' :
            /\ \E sn \in 1..MaxConnects : SessionsOf(d)' = {<<register[d].node_type, sn>>}
            /\ d \in DOMAIN nodes' /\ nodes'[d].is_online
            /\ d \in syncList'
       /\ \A c \in connects :
            (c \notin connects' /\ lastErr' \in ConnectErrors)
               => <<c.nodeType, c.session>> \notin SessionsOf(c.deviceID)']_vars

\* C24: AuthNodeVerify returns nil only for a token signed with the key of
\* its context (the secret of the device on the context, the secret of the
\* scheduler when the context carries no device) and then returns the
\* permissions the token was signed with; a token signed by AuthNodeNew
\* for device d is accepted in the context of d whenever the secret of d
\* can be read.
C24_TokenAcceptedUnderItsKey ==
    [][\A d \in NodeDevices \cup {""}, token \in Tokens \cup ForgedTokens :
         AuthNodeVerify(d, token)
            => /\ lastErr' = errNone
                    => /\ d # "" => d \in DOMAIN register
                       /\ token.key = (IF d = "" THEN APISecret ELSE register[d].secret)
                       /\ authCall'.perms = token.allow
               /\ ([token |-> token, deviceID |-> d] \in issued /\ faults' = faults)
                    => /\ lastErr' = errNone
                       /\ authCall'.perms = token.allow]_vars

\* A token signed for a device has been accepted in the context of the
\* device with its permissions.
C24_Witness ==
    /\ lastErr = errNone
    /\ authCall.deviceID \in NodeDevices
    /\ authCall.perms = {"read"}
    /\ [token |-> authCall.token, deviceID |-> authCall.deviceID] \in issued

InitFailures ==
    {"checking fd limit", "fd limit too low", "NewCacheDB", "NewRegion", "NewDB",
     "openRepo", "bad listen address", "udp listen", "tcp listen"}

\* C25: the process exits with code 0 after a clean shutdown and with a
\* code other than 0 after an initialisation failure of the run command.
C25_ExitCodes ==
    mainProc.pc = "exited"
        => /\ mainProc.cause = "shutdown" => mainProc.exit = 0
           /\ mainProc.cause \in InitFailures => mainProc.exit # 0

\* The validators of the latest plan that have node d in their list.
ValidatorsOf(d) == {v \in DOMAIN mapping.result : d \in mapping.result[v]}

\* C26: in a plan of validateMapping every edge of the registry is in the
\* list of exactly one validator, every candidate in the list of at most
\* one (of none exactly when it drew itself), every key is a validator of
\* the validator list, and validateMapping returns an error exactly when
\* the plan is empty.
C26_PlanPartitionsNodes ==
    mapping.err # "-"
        => /\ \A e \in mapping.edgeNodes : Cardinality(ValidatorsOf(e)) = 1
           /\ \A c \in mapping.candidateNodes :
                 Cardinality(ValidatorsOf(c)) = (IF mapping.draw[c] = c THEN 0 ELSE 1)
           /\ DOMAIN mapping.result \subseteq mapping.validatorList
           /\ \A v \in DOMAIN mapping.result :
                 mapping.result[v] \subseteq mapping.edgeNodes \cup mapping.candidateNodes
           /\ (DOMAIN mapping.result = {}) <=> (mapping.err = errNoNodes)
           /\ mapping.err \in {errNoNodes, errNone}

\* A plan of two validators with two edges each on another list, one
\* candidate validated by the other and one that drew itself.
C26_Witness ==
    /\ mapping.validatorList = MapCandidates
    /\ mapping.edgeNodes = MapEdges
    /\ mapping.candidateNodes = MapCandidates
    /\ mapping.err = errNone
    /\ ValidatorsOf("e1") # ValidatorsOf("e2")
    /\ ValidatorsOf("c1") = {"c2"}
    /\ ValidatorsOf("c2") = {}

\* The entries an iteration of the dispatch goroutine t added to its batch.
NewEntries(t) == UNION {u.req : u \in dispatchTasks' \ dispatchTasks} \ t.req

\* A row of status created for round r and device d.
CreatedRow(rs, r, d) ==
    \E row \in rs : /\ row.round_id = r /\ row.device_id = d
                     /\ row.status = ValidateStatusCreate

\* C27: when the dispatch goroutine puts an entry for a device into the
\* batch of its validator, the row (current round, device) of status
\* created exists and the device is in the verifying set; and when it adds
\* a device to the verifying set, that row exists; also when the store
\* call for the verifying set or for the row fails.
C27_DispatchConsistent ==
    [][\A t \in dispatchTasks :
         assemblyValidateReqAndStore(t)
            => /\ \A e \in NewEntries(t) :
                    /\ CreatedRow(rows', e.RoundID, e.deviceID)
                    /\ e.deviceID \in verifying'
               /\ \A d \in verifying' \ verifying :
                    CreatedRow(rows', curRoundId, d)]_vars

\* The ValidateBlocks calls that did not reach their validator.
Undelivered == {c \in calls : c.outcome # rpcSent}

\* C28: a ValidateBlocks call that fails, or whose validator is gone,
\* changes no row and leaves the verifying set as it is; and once a later
\* preflight is done and its timeout goroutines have run, the row of every
\* target of the batch has status timeout.
C28_UndeliveredTimesOut ==
    [][/\ \A t \in dispatchTasks : \A o \in BlocksOutcomes \ {rpcSent} :
            ValidateBlocks(t, o) => UNCHANGED <<rows, verifying>>
       /\ \A c \in Undelivered' : \A e \in c.req :
            (preflightDone' > c.preflight /\ timeoutTasks' = {})
               => \E row \in rows' : /\ row.round_id = e.RoundID
                                      /\ row.device_id = e.deviceID
                                      /\ row.status = ValidateStatusTimeOut]_vars

\* The devices the entries of a batch are for.
BatchDevices(req) == {e.deviceID : e \in req}

\* C29: in a round there is one dispatch goroutine per validator of the
\* plan, with targets no other goroutine has; a goroutine makes at most one
\* ValidateBlocks call and has ended when it made it; the batch of the call
\* has one entry per device, for targets of that validator only, and in the
\* first round, where maxFidMap holds the devices that round retained, an
\* entry for every retained target.
C29_OneBatchPerValidator ==
    /\ \A t1, t2 \in dispatchTasks :
          (t1 # t2 /\ t1.round = t2.round)
             => /\ t1.validatorID # t2.validatorID
                /\ t1.targets \cap t2.targets = {}
    /\ \A c \in calls : \A t \in dispatchTasks :
          ~(t.round = c.round /\ t.validatorID = c.validatorID)
    /\ \A c1, c2 \in calls :
          (c1.round = c2.round /\ c1.validatorID = c2.validatorID) => c1 = c2
    /\ \A c \in calls :
          /\ BatchDevices(c.req) \subseteq c.targets
          /\ Cardinality(c.req) = Cardinality(BatchDevices(c.req))
          /\ roundId = 1 => BatchDevices(c.req) = c.targets \cap maxFidMap

\* Validator c1 got edges e1 and e2, both hold content: the one call of the
\* round went to c1 with two entries.
C29_Witness ==
    /\ dispatchTasks = {} /\ roundId = 1
    /\ \E c \in calls :
          /\ calls = {c}
          /\ c.validatorID = "c1" /\ c.outcome = rpcSent
          /\ c.targets = {"e1", "e2"}
          /\ BatchDevices(c.req) = {"e1", "e2"} /\ Cardinality(c.req) = 2
    /\ verifying = {"e1", "e2"}

\* The seed startValidate drew for round r (line 119): the model names the
\* seed of a round by the round's id.
SeedOfRound(r) == r

\* C30: an entry a dispatch goroutine puts into its batch carries the round
\* id of the round that spawned the goroutine and the seed of that round;
\* and a result for a device the round it reports dispatched, which passed
\* the round id check and has cids to compare, is scored with the seed of
\* that round, whatever else runs in between.
C30_SeedAndRoundOfTheRound ==
    [][/\ \A t \in dispatchTasks :
            assemblyValidateReqAndStore(t)
               => \A e \in NewEntries(t) : /\ e.RoundID = t.round
                                            /\ e.Seed = SeedOfRound(t.round)
       /\ (/\ handleUpdate
           /\ ~handler.res.IsCancel /\ ~handler.res.IsTimeout
           /\ ~isNull(handler.res)
           /\ <<handler.res.RoundID, handler.res.DeviceID>> \in scheduled)
             => seed = SeedOfRound(handler.res.RoundID)]_vars

\* C31: an execution that reads the counter gets a previous round id that
\* is the current round id the execution before it got, and smaller than
\* its own; the current round id of the engine never decreases; an
\* execution whose read fails returns the error and leaves round ids, seed,
\* state and verifying set as they are.
C31_RoundIdMonotonic ==
    [][/\ curRoundId' >= curRoundId
       /\ \A r \in Runners :
            GetRoundId(r)
               => IF lastErr' = errStore
                    THEN UNCHANGED <<roundId, preRoundId, curRoundId, seed,
                                     validateState, verifying>>
                    ELSE \E n \in Runners' :
                           /\ n.pc = "assign"
                           /\ n.pre = roundId /\ n.pre < n.cur
                           /\ n.cur = roundId']_vars

\* C32: when the store call that writes the status of a result fails, the
\* rows stay as they are and the return of handleValidateResult leaves the
\* verifying set as it is.
C32_FailedUpdateIsNoProgress ==
    [][/\ (handleUpdate /\ handler'.err = errStore) => UNCHANGED rows
       /\ (handleDeferred /\ handler.err = errStore) => UNCHANGED verifying]_vars

\* C33: a lookup whose query succeeds and finds no row returns an error
\* for which IsNilErr is true; IsNilErr is false for every other error.
C33_MissingRowIsNilErr ==
    LET c == durable.call
    IN  c.fn \in Lookups
          => /\ (c.fail = "none" /\ ~c.present)
                  => (c.err # errNone /\ ~IsNilErr(c.err).panic /\ IsNilErr(c.err).value)
             /\ (c.err # errNone /\ (c.present \/ c.fail # "none"))
                  => (~IsNilErr(c.err).panic /\ ~IsNilErr(c.err).value)

\* C34: after any sequence of SetNodeInfo calls, two of them concurrent for
\* a device without a row included, the node table holds exactly one row
\* of every device that was written, with the node_type and the
\* create_time of the first write; a device never written has no row.
C34_OneRowFirstWriteKept ==
    \A d \in NodeDevices :
       LET rs == {r \in nodeWrites.table : r.device_id = d}
       IN  IF d \in DOMAIN nodeWrites.first
             THEN /\ Cardinality(rs) = 1
                  /\ \A r \in rs : /\ r.node_type = nodeWrites.first[d].node_type
                                   /\ r.create_time = nodeWrites.first[d].create_time
             ELSE rs = {}

\* Two calls for n1 read "Not Found"; the second INSERT was rejected and
\* the row is the one of the first INSERT.
C34_WitnessConcurrentInsert ==
    /\ nodeWrites.last = [op |-> "duplicate", deviceID |-> "n1"]
    /\ lastErr = errDuplicate
    /\ \E r \in nodeWrites.table : r.device_id = "n1"

\* A later call for n1 has updated the row: another server name and another
\* address, the node_type and the create_time of the first call.
C34_WitnessUpdate ==
    /\ nodeWrites.last = [op |-> "update", deviceID |-> "n1"]
    /\ \E r \in nodeWrites.table :
          /\ r.device_id = "n1" /\ r.create_time = 0
          /\ r.server_name = "s2" /\ r.node_type = "edge"

\* C35: AuthNodeNew returns a token only for a registered device and the
\* secret the device is registered with, and the token is signed for that
\* device; for a device that is not registered or for another secret it
\* returns an error and signs no token.
C35_TokenOnlyForRegisteredSecret ==
    [][\A perms \in SUBSET Permissions, d \in NodeDevices, k \in Secrets :
         AuthNodeNew(perms, d, k)
            => /\ lastErr' = errNone
                    => /\ d \in DOMAIN register
                       /\ register[d].secret = k
                       /\ [token |-> Sign(perms, k), deviceID |-> d] \in issued'
               /\ (d \notin DOMAIN register \/ register[d].secret # k)
                    => /\ lastErr' \in {errLookup, errSecret}
                       /\ issued' = issued]_vars

\* A device was given a token for its secret, and a call with another
\* secret has been rejected afterwards.
C35_Witness ==
    /\ lastErr = errSecret
    /\ \E t \in issued : /\ t.deviceID \in DOMAIN register
                         /\ t.token.key = register[t.deviceID].secret

\* C36: every result that passed the round id check is handled without a
\* crash and written with a terminal status, whatever its flags, the
\* length of its cids against its random count, whether the device has a
\* max fid and whatever GetBlocksFID returns; when the query of the fids
\* fails the status is other.
C36_EveryResultRecorded ==
    verdict.done
       => /\ ~verdict.out.panic
          /\ verdict.out.status \in TerminalStatus
          /\ (/\ ~verdict.res.IsCancel /\ ~verdict.res.IsTimeout
              /\ Len(verdict.res.Cids) > 0 /\ verdict.res.RandomCount > 0
              /\ verdict.queryErr)
                => verdict.out.status = ValidateStatusOther

\* C37: the deferred removal of handleValidateResult takes from the
\* verifying set only an entry of the round of the result it handles: when
\* the result is of a device dispatched in its round, no later round has
\* put the device into the set again in between.
C37_RemovalOfOwnRound ==
    [][(/\ handleDeferred
        /\ <<handler.round, handler.deviceID>> \in scheduled
        /\ handler.deviceID \in verifying
        /\ handler.deviceID \notin verifying')
          => \A r \in 0..MaxRound :
                <<r, handler.deviceID>> \in scheduled => r <= handler.round]_vars

\* The queued path is at rest: no push in progress, no signal pending, the
\* consumer waiting.
QueueAtRest ==
    /\ resultQueue.pushers = {}
    /\ resultQueue.channel = 0
    /\ resultQueue.consumer.pc = "recv"

\* C38: the results pushed are handled once each and in push order (the
\* results handled so far are the first results pushed), the process does
\* not crash, and once the queued path is at rest every result pushed has
\* been handled.
C38_QueueDeliversEachOnceInOrder ==
    /\ ~resultQueue.crashed
    /\ Len(resultQueue.handled) <= Len(resultQueue.pushed)
    /\ \A i \in 1..Len(resultQueue.handled) : resultQueue.handled[i] = resultQueue.pushed[i]
    /\ QueueAtRest => resultQueue.handled = resultQueue.pushed

\* C39: when execute returns an error (RemoveVerifyingList or
\* GetValidatorsWithList fails, or validateMapping finds no node),
\* startValidate returns that error with the engine in
\* validationNotStarted, and the round has no row, no device in the
\* verifying set and no ValidateBlocks call.
C39_AbortedRoundLeavesNothing ==
    [][\A r \in Runners :
         ((execute(r) \/ executeMapping(r)) /\ lastErr' \in {errStore, errNoNodes})
            => /\ validateState' = validationNotStarted
               /\ \A rw \in rows' : rw.round_id # curRoundId
               /\ \A d \in Devices : <<curRoundId, d>> \notin scheduled'
               /\ \A c \in calls' : /\ c.round # curRoundId
                                    /\ \A e \in c.req : e.RoundID # curRoundId]_vars

\* C40: ValidateRunningState returns the enable flag: the value of the
\* latest ValidateSwitch, or true once a ValidateStart was not rejected as
\* in progress (the step that starts its restart goroutine), and nothing
\* else changes it.
C40_RunningStateIsEnableFlag ==
    [][/\ \A e \in BOOLEAN : EnableValidate(e) => IsEnable' = e
       /\ sleepers' > sleepers => IsEnable'
       /\ IsEnable' # IsEnable
            => (sleepers' > sleepers \/ \E e \in BOOLEAN : EnableValidate(e))]_vars

\* A ValidateStart was accepted (its restart goroutine is asleep, the
\* crontab stopped): the flag is true and the round of the start is past
\* the enable check.
C40_Witness ==
    /\ IsEnable
    /\ sleepers > 0 /\ ~cronRunning
    /\ \E r \in Runners : r.manual /\ r.pc = "execute"

====
